---- MODULE Spec2Model ----
(***************************************************************************)
(* Remote sector store (extern/sector-storage/stores/remote.go).           *)
(*                                                                         *)
(* Each caller is one goroutine that performs one call on the shared       *)
(* *Remote: AcquireSector, Reader or Remove.  A SectorFileType bitmask is  *)
(* modelled as the set of the file types whose bit is set.                 *)
(***************************************************************************)
EXTENDS Integers, Sequences, FiniteSets, TLC

\* ------------------------------------------------------------------ bounds
NumCallers == 2
FetchLimit == 1

Callers == 1..NumCallers
Sectors == {"s1", "s2"}

\* ------------------------------------------------------------ file types
FTUnsealed == "unsealed"
FTSealed == "sealed"
FTCache == "cache"
FTNone == {}
PathTypes == <<FTUnsealed, FTSealed, FTCache>>
FileTypes == {FTUnsealed, FTSealed, FTCache}

AcquireMove == "move"
AcquireCopy == "copy"

\* ------------------------------------------------- storage locations (env)
LocalID == "local"
RemoteIDs == {"A", "B"}
Weight == [A |-> 2, B |-> 1]
URLs == [A |-> <<"a1">>, B |-> <<"b1", "b2">>]

\* ------------------------------------------------------------------ state
VARIABLES
  pc,        \* pc[g]: position of goroutine g in its call
  req,       \* req[g]: the arguments of g's call
  ctxDone,   \* ctxDone[g]: the context of g's running call has been cancelled
  loc,       \* loc[g]: the local variables of g's call; src: the URL the file
             \* in hand was fetched from (observation only)
  ret,       \* ret[g]: what g's call returned
  fetching,  \* r.fetching: sector -> waiter channel (0: no entry)
  closed,    \* the waiter channels that have been closed
  limit,     \* len(r.limit): tokens in the fetch semaphore
  index,     \* sector index: index[s][ft] = storage IDs that declare the file
  hist       \* hist[g]: per-call event counters (observation only)

vars == <<pc, req, ctxDone, loc, ret, fetching, closed, limit, index, hist>>

\* the state of the Raft consensus component (lib/consensus/raft)
VARIABLES
  leader,     \* the leader the raft engine reports (None: no leader)
  elections,  \* number of leader changes so far
  rlog,       \* the replicated log: the ops committed, in the leader's order
  applied,    \* applied[p]: number of log entries replica p has applied
  raftState,  \* raftState[p]: the RaftState of replica p (Mpool included)
  raftPeers,  \* the membership of the raft cluster
  call        \* call[c]: the Consensus call caller c is running

raftVars == <<leader, elections, rlog, applied, raftState, raftPeers, call>>

\* what the actions of the Remote store leave alone, and those of Consensus
\* the life cycle of the Consensus component (consensus.go, lines 85-294)
VARIABLES
  ctor,        \* how far the constructor is: "new", "plain", "rpc"
  hostShutdown, \* cc.config.HostShutdown
  bootPc,      \* position of the goroutine finishBootstrap
  bootLog,     \* the steps finishBootstrap has completed, in order
  rpcReady,    \* cc.rpcReady: [buf: values buffered, closed: BOOLEAN]
  readyCh,     \* cc.readyCh: number of values sent to it
  ctxCancelled, \* cc.cancel() has been called
  cancelAt,    \* Len(bootLog) at the first cc.cancel()
  raftDown,    \* cc.raft.Shutdown has been called
  hostClosed,  \* cc.host.Close() has been called
  shut         \* per caller: position of its Shutdown call

bootVars == <<ctor, hostShutdown, bootPc, bootLog, rpcReady, readyCh, ctxCancelled,
              cancelAt, raftDown, hostClosed, shut>>

\* the LocalWorker (worker_local.go)
VARIABLES
  task,         \* per asyncCall: the position of its goroutine and, until its
                \* work function has returned, the kind of the call
  tracker,      \* l.ct: per CallID "absent", "started" or "done"
  stageLock,    \* p1Mutex, p2Mutex, c2Mutex: the task that holds it, or 0
  runningTasks, \* l.runningTasks (a map: the keys are its DOMAIN)
  running,      \* l.running (sync.WaitGroup counter)
  quiet,        \* WaitQuiet has returned and no asyncCall was made since
  closing,      \* l.closing is closed
  delivered,    \* per CallID the returns the manager has accepted, in order
  replay        \* the goroutine of newLocalWorker that returns unfinished calls

workerVars == <<task, tracker, stageLock, runningTasks, running, quiet, closing, delivered,
               replay>>

outsideRemote == <<raftVars, bootVars, workerVars>>
outsideRaft == <<vars, bootVars, workerVars>>
outsideBoot == <<vars, raftVars, workerVars>>
outsideWorker == <<vars, raftVars, bootVars>>

NoReq == [kind |-> "none", s |-> "s1", existing |-> {}, allocate |-> {}, op |-> AcquireCopy]
NoLoc == [c |-> 0, paths |-> {}, toFetch |-> {}, ft |-> 1, si |-> <<>>, li |-> 1,
          ui |-> 1, merr |-> 0, url |-> "", src |-> "", resv |-> FALSE]
NoRet == [err |-> "", paths |-> {}, merr |-> 0, tried |-> 0, rd |-> ""]
NoHist == [localAcq |-> 0, reserved |-> 0, released |-> 0, tokens |-> 0, fetched |-> {},
           declared |-> {}, deleted |-> {}, delErr |-> FALSE, misdirected |-> FALSE]

\* ------------------------------------------- Raft consensus: constants, state
\* cc.config.CommitRetries
CommitRetries == 1
\* leader changes the raft engine goes through
MaxElections == 2

\* the replicas of the cluster, and the peer that AddPeer / RmPeer are about
Peers == {"p1", "p2"}
None == "none"
NewPeer == "p3"

\* the ConsensusOps the callers commit: two nonces of one address, and an op of
\* another address that reuses a uuid
Ops ==
  { [Addr |-> "A", Nonce |-> 1, Uuid |-> "u1", SignedMsg |-> "m1"],
    [Addr |-> "A", Nonce |-> 2, Uuid |-> "u2", SignedMsg |-> "m2"],
    [Addr |-> "B", Nonce |-> 1, Uuid |-> "u1", SignedMsg |-> "m3"] }
Msgs == {op.SignedMsg : op \in Ops}
NoOp == [Addr |-> "", Nonce |-> 0, Uuid |-> "", SignedMsg |-> ""]

\* a Go map with no key
EmptyMap == [k \in {} |-> 0]

\* m[k] = v
Put(m, k, v) == [x \in DOMAIN m \cup {k} |-> IF x = k THEN v ELSE m[x]]

\* lines 57-63; the message pool is the node's own: added[m] counts the
\* Mpool.Add(m) calls, held is what the pool holds
newRaftState ==
  [NonceMap |-> EmptyMap, MsgUuids |-> EmptyMap,
   Mpool |-> [added |-> [m \in Msgs |-> 0], held |-> {}]]

\* messagepool.MessagePool.Add
MpoolAdd(mp, m) == [mp EXCEPT !.added[m] = @ + 1, !.held = @ \cup {m}]

\* mutation of ApplyTo: a nonce is stored only when it is larger than the one
\* in the map
ApplyToLarger(c, s) ==
  [s EXCEPT !.NonceMap = IF c.Addr \in DOMAIN @ /\ @[c.Addr] >= c.Nonce
                         THEN @ ELSE Put(@, c.Addr, c.Nonce),
            !.MsgUuids = Put(@, c.Uuid, c.SignedMsg),
            !.Mpool = MpoolAdd(@, c.SignedMsg)]

\* mutation of ApplyTo: an op whose message the local pool holds already is
\* skipped
ApplyToUnlessHeld(c, s) ==
  IF c.SignedMsg \in s.Mpool.held
  THEN s
  ELSE [s EXCEPT !.NonceMap = Put(@, c.Addr, c.Nonce),
                 !.MsgUuids = Put(@, c.Uuid, c.SignedMsg),
                 !.Mpool = MpoolAdd(@, c.SignedMsg)]

\* lines 72-78
ApplyTo(c, s) ==
  [s EXCEPT !.NonceMap = Put(@, c.Addr, c.Nonce),
            !.MsgUuids = Put(@, c.Uuid, c.SignedMsg),
            !.Mpool = MpoolAdd(@, c.SignedMsg)]

\* a caller with no call: the variables of Commit, AddPeer / RmPeer (i,
\* finalErr, ok, err) and of RedirectToLeader (ri, rFinalErr, target), the
\* result ret, and counters of what the call did (observation only):
\* commitOps / commitOk: CommitOp calls and those that succeeded; rpcs / rpcOk:
\* RPCs of the current RedirectToLeader call; lookups: its leader lookups;
\* applies / applyOk: calls of the local raft engine's AddPeer / RemovePeer;
\* late: an attempt was made after the context was cancelled; blind: the local
\* engine was called in an attempt where the node had not seen itself leader;
\* again: an attempt was made after one had succeeded
NoCall ==
  [kind |-> "none", node |-> "p1", op |-> NoOp, pc |-> "idle", ctxDone |-> FALSE,
   i |-> 0, finalErr |-> "", ok |-> FALSE, err |-> "",
   ri |-> 0, rFinalErr |-> "", target |-> None, ret |-> "",
   commitOps |-> 0, commitOk |-> 0, rpcs |-> 0, rpcOk |-> 0, lookups |-> 0,
   applies |-> 0, applyOk |-> 0, late |-> FALSE, blind |-> FALSE, again |-> FALSE]

\* lines 116-165: NewConsensus on every replica, p1 elected
RaftInit ==
  /\ leader = "p1"
  /\ elections = 0
  /\ rlog = <<>>
  /\ applied = [p \in Peers |-> 0]
  /\ raftState = [p \in Peers |-> newRaftState]
  /\ raftPeers = Peers
  /\ call = [c \in Callers |-> NoCall]

\* lines 147-163: the struct NewConsensus builds, finishBootstrap started
BootInit ==
  /\ ctor = "new"
  /\ hostShutdown = FALSE
  /\ bootPc = "select"
  /\ bootLog = <<>>
  /\ rpcReady = [buf |-> 0, closed |-> FALSE]
  /\ readyCh = 0
  /\ ctxCancelled = FALSE
  /\ cancelAt = 0
  /\ raftDown = FALSE
  /\ hostClosed = FALSE
  /\ shut = [c \in Callers |-> "idle"]

\* ------------------------------------------- LocalWorker: constants, state
\* number of asyncCall calls made on the worker
NumTasks == 2

Tasks == 1..NumTasks

\* sealtasks.TaskType values
TTAddPiece == "AP"
TTPreCommit1 == "P1"
TTPreCommit2 == "P2"
TTCommit1 == "C1"
TTCommit2 == "C2"
TTFinalize == "FIN"
TTFetch == "FETCH"

TaskTypes == {TTAddPiece, TTPreCommit1, TTPreCommit2, TTCommit1, TTCommit2, TTFinalize, TTFetch}

\* the task types whose work function takes a stage mutex
Stages == {TTPreCommit1, TTPreCommit2, TTCommit2}

\* the calls the tasks of the model make: AddPiece, SealPreCommit1,
\* SealPreCommit2, SealCommit1, SealCommit2, FinalizeSector
Kinds == {TTAddPiece, TTPreCommit1, TTPreCommit2, TTCommit1, TTCommit2, TTFinalize}

\* lines 755-762
parallelConfig ==
  [tt \in Kinds |-> IF tt = TTCommit1 THEN 8 ELSE 1]

\* parallelConfig[tt] as Go reads a map: the zero value for a missing key
ParallelCount(tt) == IF tt \in DOMAIN parallelConfig THEN parallelConfig[tt] ELSE 0

\* l.runningTasks[tt] as Go reads a map
Running(tt) == IF tt \in DOMAIN runningTasks THEN runningTasks[tt] ELSE 0

\* the CallIDs of two call records left in the store by the previous
\* process (a CallID of this process is the number of its task)
OldStarted == NumTasks + 1
OldDone == NumTasks + 2

OldCalls == {OldStarted, OldDone}

CallIDs == OldCalls \cup Tasks

\* the state of the old records: one was started, the other was done
OldState == [o \in OldCalls |-> IF o = OldStarted THEN "started" ELSE "done"]

\* the orders in which unfinished() may list the records of the store
OldLists == {<<>>, <<OldStarted, OldDone>>}

NoTask == [kind |-> "", pc |-> "idle", ctxDone |-> FALSE, err |-> FALSE, ret |-> "", ev |-> <<>>]

\* line 102-124: the struct newLocalWorker builds, before it reads the store
WorkerInit ==
  /\ task = [t \in Tasks |-> NoTask]
  /\ tracker = [id \in CallIDs |-> "absent"]
  /\ stageLock = [s \in Stages |-> 0]
  /\ runningTasks = EmptyMap
  /\ running = 0
  /\ quiet = FALSE
  /\ closing = FALSE
  /\ delivered = [id \in CallIDs |-> <<>>]
  /\ replay = [pc |-> "new", list |-> <<>>, idx |-> 1]

Init ==
  /\ RaftInit
  /\ BootInit
  /\ WorkerInit
  /\ pc = [g \in Callers |-> "idle"]
  /\ req = [g \in Callers |-> NoReq]
  /\ ctxDone = [g \in Callers |-> FALSE]
  /\ loc = [g \in Callers |-> NoLoc]
  /\ ret = [g \in Callers |-> NoRet]
  /\ fetching = [s \in Sectors |-> 0]
  /\ closed = {}
  /\ limit = 0
  /\ index = [s \in Sectors |->
               IF s = "s1"
               THEN [ft \in FileTypes |-> CASE ft = FTUnsealed -> {"B"}
                                            [] ft = FTSealed -> {"A", "B"}
                                            [] OTHER -> {"A"}]
               ELSE [ft \in FileTypes |-> IF ft = FTSealed THEN {"A"} ELSE {}]]
  /\ hist = [g \in Callers |-> NoHist]

\* --------------------------------------------------------------- helpers
\* mutation of InvalidAcquire: only identical arguments are rejected
InvalidAcquireEqual(existing, allocate) == existing # {} /\ existing = allocate

\* existing|allocate != existing^allocate
InvalidAcquire(existing, allocate) ==
  (existing \cup allocate) # ((existing \ allocate) \cup (allocate \ existing))

\* the arguments callers pass to AcquireSector
AcquireArgs ==
  { [existing |-> {FTSealed, FTCache}, allocate |-> FTNone, op |-> AcquireMove],
    [existing |-> {FTUnsealed}, allocate |-> {FTSealed, FTCache}, op |-> AcquireCopy],
    [existing |-> {FTUnsealed, FTSealed}, allocate |-> {FTSealed}, op |-> AcquireCopy] }

AcquireReqs ==
  { [kind |-> "acquire", s |-> s, existing |-> a.existing, allocate |-> a.allocate,
     op |-> a.op] : s \in Sectors, a \in AcquireArgs }

\* The callers are interchangeable (a caller's number is only the identity of
\* the waiter channel it makes), so they are numbered in the order of their
\* requests: of the behaviours that differ by a renaming of the callers, one is
\* kept.
ReqKey(r) ==
  (CASE r.kind = "acquire" -> 0 [] r.kind = "reader" -> 100 [] OTHER -> 200)
  + (IF r.s = "s1" THEN 0 ELSE 50)
  + Cardinality(r.existing) * 8 + Cardinality(r.allocate) * 2
  + (IF FTUnsealed \in r.existing THEN 1 ELSE 0)

InOrder(g, r) ==
  \A h \in Callers \ {g} :
    pc[h] # "idle" =>
      IF h < g THEN ReqKey(req[h]) <= ReqKey(r) ELSE ReqKey(r) <= ReqKey(req[h])

\* the number of URLs of the stores listed in si
RECURSIVE NumURLs(_)
NumURLs(si) == IF si = <<>> THEN 0 ELSE Len(URLs[Head(si)]) + NumURLs(Tail(si))

\* the sentinel error that errors.Is finds in the error e (e itself when it
\* wraps none): line 184 wraps ErrSectorNotFound, line 222 wraps merr
Unwrap(e) ==
  CASE e = "notFound" -> "ErrSectorNotFound"
    [] e = "tried" -> "multierror"
    [] OTHER -> e

\* a return statement of a call of g that holds the single-flight slot: the
\* results are set, the deferred functions are still to run
Return(g, e, p, m) ==
  /\ ret' = [ret EXCEPT ![g] = [NoRet EXCEPT !.err = e, !.paths = p, !.merr = m,
                                             !.tried = NumURLs(loc[g].si)]]
  /\ pc' = [pc EXCEPT ![g] = "release"]
  /\ loc' = [loc EXCEPT ![g] = [NoLoc EXCEPT !.resv = loc[g].resv]]

\* ------------------------------------------------- Remote.AcquireSector
AcquireSector(g) ==
  /\ pc[g] = "idle"
  /\ UNCHANGED outsideRemote
  /\ \E r \in AcquireReqs :
       /\ InOrder(g, r)
       /\ req' = [req EXCEPT ![g] = r]
       /\ IF InvalidAcquire(r.existing, r.allocate)
          THEN /\ pc' = [pc EXCEPT ![g] = "done"]
               /\ ret' = [ret EXCEPT ![g] = [NoRet EXCEPT !.err = "invalidAcquire"]]
          ELSE /\ pc' = [pc EXCEPT ![g] = "lock"]
               /\ UNCHANGED ret
  /\ UNCHANGED <<ctxDone, loc, fetching, closed, limit, index, hist>>

\* mutation of AcquireClaim: the waiter is installed without a look at the map
AcquireClaimUnchecked(g) ==
  /\ pc[g] = "lock"
  /\ UNCHANGED outsideRemote
  /\ fetching' = [fetching EXCEPT ![req[g].s] = g]
  /\ pc' = [pc EXCEPT ![g] = "localAcquire"]
  /\ loc' = [loc EXCEPT ![g].c = 0]
  /\ UNCHANGED <<req, ctxDone, ret, closed, limit, index, hist>>

\* lines 72-81: one pass of the claim loop, under fetchLk
AcquireClaim(g) ==
  /\ pc[g] = "lock"
  /\ UNCHANGED outsideRemote
  /\ IF fetching[req[g].s] = 0
     THEN /\ fetching' = [fetching EXCEPT ![req[g].s] = g]
          /\ pc' = [pc EXCEPT ![g] = "localAcquire"]
          /\ loc' = [loc EXCEPT ![g].c = 0]
     ELSE /\ loc' = [loc EXCEPT ![g].c = fetching[req[g].s]]
          /\ pc' = [pc EXCEPT ![g] = "wait"]
          /\ UNCHANGED fetching
  /\ UNCHANGED <<req, ctxDone, ret, closed, limit, index, hist>>

\* mutation of AcquireWake: a woken contender returns at once, without
\* claiming the slot
AcquireWakeReturn(g) ==
  /\ pc[g] = "wait"
  /\ UNCHANGED outsideRemote
  /\ loc[g].c \in closed
  /\ pc' = [pc EXCEPT ![g] = "done"]
  /\ loc' = [loc EXCEPT ![g] = NoLoc]
  /\ ret' = [ret EXCEPT ![g] = [NoRet EXCEPT !.paths = req[g].existing \cup req[g].allocate]]
  /\ ctxDone' = [ctxDone EXCEPT ![g] = FALSE]
  /\ UNCHANGED <<req, fetching, closed, limit, index, hist>>

\* line 84: case <-c
AcquireWake(g) ==
  /\ pc[g] = "wait"
  /\ UNCHANGED outsideRemote
  /\ loc[g].c \in closed
  /\ pc' = [pc EXCEPT ![g] = "lock"]
  /\ UNCHANGED <<req, ctxDone, loc, ret, fetching, closed, limit, index, hist>>

\* mutation of AcquireCtxDone: the contender that gives up runs the release
\* of the slot it waited for
AcquireCtxDoneRelease(g) ==
  /\ pc[g] = "wait"
  /\ UNCHANGED outsideRemote
  /\ ctxDone[g]
  /\ pc' = [pc EXCEPT ![g] = "done"]
  /\ ret' = [ret EXCEPT ![g] = [NoRet EXCEPT !.err = "ctx"]]
  /\ loc' = [loc EXCEPT ![g] = NoLoc]
  /\ ctxDone' = [ctxDone EXCEPT ![g] = FALSE]
  /\ closed' = closed \cup ({fetching[req[g].s]} \ {0})
  /\ fetching' = [fetching EXCEPT ![req[g].s] = 0]
  /\ UNCHANGED <<req, limit, index, hist>>

\* line 86: case <-ctx.Done()
AcquireCtxDone(g) ==
  /\ pc[g] = "wait"
  /\ UNCHANGED outsideRemote
  /\ ctxDone[g]
  /\ pc' = [pc EXCEPT ![g] = "done"]
  /\ ret' = [ret EXCEPT ![g] = [NoRet EXCEPT !.err = "ctx"]]
  /\ loc' = [loc EXCEPT ![g] = NoLoc]
  /\ ctxDone' = [ctxDone EXCEPT ![g] = FALSE]
  /\ UNCHANGED <<req, fetching, closed, limit, index, hist>>

\* the caller's context is cancelled (environment).  A context is read only by
\* the two selects, and a cancellation that arrives elsewhere is seen at the
\* next select, so the cancellation is taken to arrive while the call waits.
CtxCancel(g) ==
  /\ pc[g] \in {"wait", "fetchWait", "readWait"}
  /\ UNCHANGED outsideRemote
  /\ ~ctxDone[g]
  /\ ctxDone' = [ctxDone EXCEPT ![g] = TRUE]
  /\ UNCHANGED <<pc, req, loc, ret, fetching, closed, limit, index, hist>>

\* Local.AcquireSector: the paths of the existing types declared for the local
\* store, and fresh paths for the allocate types
LocalPaths(s, existing, allocate) ==
  {ft \in existing : LocalID \in index[s][ft]} \cup allocate

\* lines 98-112: local.AcquireSector and the toFetch loop
AcquireLocal(g) ==
  /\ pc[g] = "localAcquire"
  /\ UNCHANGED outsideRemote
  /\ hist' = [hist EXCEPT ![g].localAcq = @ + 1]
  /\ \E ok \in BOOLEAN :
       IF ok
       THEN LET paths == LocalPaths(req[g].s, req[g].existing, req[g].allocate)
            IN /\ loc' = [loc EXCEPT ![g].paths = paths,
                                     ![g].toFetch = {ft \in req[g].existing : ft \notin paths}]
               /\ pc' = [pc EXCEPT ![g] = "allocate"]
               /\ UNCHANGED ret
       ELSE Return(g, "localAcquire", {}, 0)
  /\ UNCHANGED <<req, ctxDone, fetching, closed, limit, index>>

\* lines 114-117: local.AcquireSector(FTNone, toFetch)
AcquireAllocate(g) ==
  /\ pc[g] = "allocate"
  /\ UNCHANGED outsideRemote
  /\ \E ok \in BOOLEAN :
       IF ok
       THEN /\ pc' = [pc EXCEPT ![g] = "reserve"]
            /\ UNCHANGED <<ret, loc>>
       ELSE Return(g, "allocate", {}, 0)
  /\ UNCHANGED <<req, ctxDone, fetching, closed, limit, index, hist>>

\* lines 119-128: local.Reserve and defer releaseStorage()
AcquireReserve(g) ==
  /\ pc[g] = "reserve"
  /\ UNCHANGED outsideRemote
  /\ \E ok \in BOOLEAN :
       IF ok
       THEN /\ loc' = [loc EXCEPT ![g].resv = TRUE]
            /\ hist' = [hist EXCEPT ![g].reserved = @ + 1]
            /\ pc' = [pc EXCEPT ![g] = "loop"]
            /\ UNCHANGED ret
       ELSE /\ Return(g, "reserve", {}, 0)
            /\ UNCHANGED hist
  /\ UNCHANGED <<req, ctxDone, fetching, closed, limit, index>>

\* the indexes k >= from of PathTypes that the fetch loop does not skip
ToVisit(g, from) ==
  {k \in from..Len(PathTypes) :
     PathTypes[k] \in req[g].existing /\ PathTypes[k] \notin loc[g].paths}

Min(S) == CHOOSE x \in S : \A y \in S : x <= y

\* lines 130-137 and 162: the header of the fetch loop from type index `from`
\* on, and the final return
LoopFrom(g, from) ==
  IF ToVisit(g, from) = {}
  THEN Return(g, "", loc[g].paths, 0)
  ELSE /\ loc' = [loc EXCEPT ![g].ft = Min(ToVisit(g, from)),
                             ![g].url = "", ![g].src = ""]
       /\ pc' = [pc EXCEPT ![g] = "find"]
       /\ UNCHANGED ret

\* line 130: the fetch loop is entered
AcquireLoop(g) ==
  /\ pc[g] = "loop"
  /\ UNCHANGED outsideRemote
  /\ LoopFrom(g, 1)
  /\ UNCHANGED <<req, ctxDone, fetching, closed, limit, index, hist>>

\* the position after URL (li, ui) in the loops of lines 192-195
Advance(l) ==
  IF l.ui < Len(URLs[l.si[l.li]])
  THEN [l EXCEPT !.ui = @ + 1]
  ELSE [l EXCEPT !.li = @ + 1, !.ui = 1]

CurURL(l) == URLs[l.si[l.li]][l.ui]

\* lines 196-205: tempFetchDest and os.RemoveAll for the URL l points at, up to
\* the select of fetch
BeginURL(g, l) ==
  \E fsok \in BOOLEAN :
    IF fsok
    THEN /\ loc' = [loc EXCEPT ![g] = l]
         /\ pc' = [pc EXCEPT ![g] = "fetchWait"]
         /\ UNCHANGED ret
    ELSE Return(g, "fs", {}, 0)

\* mutation of AfterFetchErr: merr keeps the last fetch error only
AfterFetchErrLast(g) ==
  LET l == Advance([loc[g] EXCEPT !.merr = 1])
  IN IF l.li > Len(l.si)
     THEN Return(g, "tried", {}, l.merr)
     ELSE BeginURL(g, l)

\* lines 206-208 and 222: a fetch error is appended to merr and the loops go on;
\* past the last URL the accumulated errors are returned
AfterFetchErr(g) ==
  LET l == Advance([loc[g] EXCEPT !.merr = @ + 1])
  IN IF l.li > Len(l.si)
     THEN Return(g, "tried", {}, l.merr)
     ELSE BeginURL(g, l)

\* mutation of SortedByWeight: the stores are left in any order
SortedAnyOrder(S) ==
  {sq \in [1..Cardinality(S) -> S] :
     \A i, j \in 1..Cardinality(S) : i # j => sq[i] # sq[j]}

\* the permutations of the stores S in ascending Weight (sort.Slice, line 187)
SortedByWeight(S) ==
  {sq \in [1..Cardinality(S) -> S] :
     /\ \A i, j \in 1..Cardinality(S) : i # j => sq[i] # sq[j]
     /\ \A i, j \in 1..Cardinality(S) : i < j => ~(Weight[sq[j]] < Weight[sq[i]])}

\* index.StorageFindSector: the remote stores that declare the file
FindSector(s, ft) == index[s][ft] \ {LocalID}

\* lines 178-189: acquireFromRemote up to the first URL
AcquireFind(g) ==
  /\ pc[g] = "find"
  /\ UNCHANGED outsideRemote
  /\ \E ok \in BOOLEAN :
       LET si == FindSector(req[g].s, PathTypes[loc[g].ft])
       IN IF ~ok
          THEN Return(g, "index", {}, 0)
          ELSE IF si = {}
          THEN Return(g, "notFound", {}, 0)
          ELSE \E sq \in SortedByWeight(si) :
                 BeginURL(g, [loc[g] EXCEPT !.si = sq, !.li = 1, !.ui = 1, !.merr = 0])
  /\ UNCHANGED <<req, ctxDone, fetching, closed, limit, index, hist>>

\* mutation of FetchAcquire: the send on r.limit never blocks
FetchAcquireUnbounded(g) ==
  /\ pc[g] = "fetchWait"
  /\ UNCHANGED outsideRemote
  /\ limit' = limit + 1
  /\ hist' = [hist EXCEPT ![g].tokens = @ + 1]
  /\ pc' = [pc EXCEPT ![g] = "fetchHttp"]
  /\ UNCHANGED <<req, ctxDone, loc, ret, fetching, closed, index>>

\* lines 236-238: fetch takes a token of r.limit
FetchAcquire(g) ==
  /\ pc[g] = "fetchWait"
  /\ UNCHANGED outsideRemote
  /\ limit < FetchLimit
  /\ limit' = limit + 1
  /\ hist' = [hist EXCEPT ![g].tokens = @ + 1]
  /\ pc' = [pc EXCEPT ![g] = "fetchHttp"]
  /\ UNCHANGED <<req, ctxDone, loc, ret, fetching, closed, index>>

\* lines 239-240: the context is done while fetch waits for a token
FetchCtxDone(g) ==
  /\ pc[g] = "fetchWait"
  /\ UNCHANGED outsideRemote
  /\ ctxDone[g]
  /\ AfterFetchErr(g)
  /\ UNCHANGED <<req, ctxDone, fetching, closed, limit, index, hist>>

\* lines 243-296 and 211-218: the HTTP GET ends, the deferred <-r.limit runs,
\* and acquireFromRemote moves the file into place
FetchDone(g) ==
  /\ pc[g] = "fetchHttp"
  /\ UNCHANGED outsideRemote
  /\ limit' = limit - 1
  /\ \E out \in {"ok", "fetchErr", "moveErr"} :
       CASE out = "ok" ->
              /\ loc' = [loc EXCEPT ![g].url = CurURL(loc[g]),
                                    ![g].paths = @ \cup {PathTypes[loc[g].ft]},
                                    ![g].src = CurURL(loc[g]),
                                    ![g].si = <<>>, ![g].li = 1, ![g].ui = 1,
                                    ![g].merr = 0]
              /\ hist' = [hist EXCEPT ![g].fetched = @ \cup {PathTypes[loc[g].ft]},
                                      ![g].tokens = @ - 1]
              /\ pc' = [pc EXCEPT ![g] = "declare"]
              /\ UNCHANGED ret
         [] out = "fetchErr" ->
              /\ AfterFetchErr(g)
              /\ hist' = [hist EXCEPT ![g].tokens = @ - 1]
         [] out = "moveErr" ->
              /\ Return(g, "move", {}, 0)
              /\ hist' = [hist EXCEPT ![g].tokens = @ - 1]
  /\ UNCHANGED <<req, ctxDone, fetching, closed, index>>

\* mutation of AcquireDeclare: a failed declaration is logged and the loop body
\* goes on to the DELETE
AcquireDeclareNoContinue(g) ==
  /\ pc[g] = "declare"
  /\ UNCHANGED outsideRemote
  /\ \E ok \in BOOLEAN :
       /\ IF ok
          THEN /\ index' = [index EXCEPT ![req[g].s][PathTypes[loc[g].ft]] = @ \cup {LocalID}]
               /\ hist' = [hist EXCEPT ![g].declared = @ \cup {PathTypes[loc[g].ft]}]
          ELSE UNCHANGED <<index, hist>>
       /\ IF req[g].op = AcquireMove
          THEN /\ pc' = [pc EXCEPT ![g] = "delete"]
               /\ UNCHANGED <<loc, ret>>
          ELSE LoopFrom(g, loc[g].ft + 1)
  /\ UNCHANGED <<req, ctxDone, fetching, closed, limit>>

\* lines 147-153: index.StorageDeclareSector for the fetched file; on an error
\* the loop continues with the next type
AcquireDeclare(g) ==
  /\ pc[g] = "declare"
  /\ UNCHANGED outsideRemote
  /\ \E ok \in BOOLEAN :
       IF ok
       THEN /\ index' = [index EXCEPT ![req[g].s][PathTypes[loc[g].ft]] = @ \cup {LocalID}]
            /\ hist' = [hist EXCEPT ![g].declared = @ \cup {PathTypes[loc[g].ft]}]
            /\ IF req[g].op = AcquireMove
               THEN /\ pc' = [pc EXCEPT ![g] = "delete"]
                    /\ UNCHANGED <<loc, ret>>
               ELSE LoopFrom(g, loc[g].ft + 1)
       ELSE /\ LoopFrom(g, loc[g].ft + 1)
            /\ UNCHANGED <<index, hist>>
  /\ UNCHANGED <<req, ctxDone, fetching, closed, limit>>

\* lines 155-159: deleteFromRemote(url); its result is only logged
AcquireDelete(g) ==
  /\ pc[g] = "delete"
  /\ UNCHANGED outsideRemote
  /\ \E ok \in BOOLEAN :
       hist' = [hist EXCEPT ![g].deleted = @ \cup {PathTypes[loc[g].ft]},
                            ![g].delErr = @ \/ ~ok,
                            ![g].misdirected = @ \/ loc[g].url # loc[g].src]
  /\ LoopFrom(g, loc[g].ft + 1)
  /\ UNCHANGED <<req, ctxDone, fetching, closed, limit, index>>

\* mutation of AcquireRelease: the waiter is closed and its map entry stays
AcquireReleaseKeepEntry(g) ==
  /\ pc[g] = "release"
  /\ UNCHANGED outsideRemote
  /\ loc' = [loc EXCEPT ![g].resv = FALSE]
  /\ hist' = [hist EXCEPT ![g].released = IF loc[g].resv THEN @ + 1 ELSE @]
  /\ closed' = closed \cup {fetching[req[g].s]}
  /\ pc' = [pc EXCEPT ![g] = "done"]
  /\ ctxDone' = [ctxDone EXCEPT ![g] = FALSE]
  /\ UNCHANGED <<req, ret, limit, index, fetching>>

\* mutation of AcquireRelease: the map entry is deleted and the waiter is
\* never closed
AcquireReleaseNoClose(g) ==
  /\ pc[g] = "release"
  /\ UNCHANGED outsideRemote
  /\ loc' = [loc EXCEPT ![g].resv = FALSE]
  /\ hist' = [hist EXCEPT ![g].released = IF loc[g].resv THEN @ + 1 ELSE @]
  /\ fetching' = [fetching EXCEPT ![req[g].s] = 0]
  /\ pc' = [pc EXCEPT ![g] = "done"]
  /\ ctxDone' = [ctxDone EXCEPT ![g] = FALSE]
  /\ UNCHANGED <<req, ret, limit, index, closed>>

\* mutation of AcquireRelease: releaseStorage() is called on the successful
\* return only, not deferred
AcquireReleaseOnSuccess(g) ==
  /\ pc[g] = "release"
  /\ UNCHANGED outsideRemote
  /\ loc' = [loc EXCEPT ![g].resv = IF ret[g].err = "" THEN FALSE ELSE @]
  /\ hist' = [hist EXCEPT ![g].released =
                            IF loc[g].resv /\ ret[g].err = "" THEN @ + 1 ELSE @]
  /\ closed' = closed \cup {fetching[req[g].s]}
  /\ fetching' = [fetching EXCEPT ![req[g].s] = 0]
  /\ pc' = [pc EXCEPT ![g] = "done"]
  /\ ctxDone' = [ctxDone EXCEPT ![g] = FALSE]
  /\ UNCHANGED <<req, ret, limit, index>>

\* lines 128 and 91-96: the deferred functions, in reverse order of their
\* defer statements: releaseStorage() when Reserve had succeeded, then the
\* release of the waiter under fetchLk; close of a missing (nil) or already
\* closed channel panics
AcquireRelease(g) ==
  /\ pc[g] = "release"
  /\ UNCHANGED outsideRemote
  /\ loc' = [loc EXCEPT ![g].resv = FALSE]
  /\ hist' = [hist EXCEPT ![g].released = IF loc[g].resv THEN @ + 1 ELSE @]
  /\ IF fetching[req[g].s] = 0 \/ fetching[req[g].s] \in closed
     THEN /\ pc' = [pc EXCEPT ![g] = "panic"]
          /\ UNCHANGED <<fetching, closed>>
     ELSE /\ closed' = closed \cup {fetching[req[g].s]}
          /\ fetching' = [fetching EXCEPT ![req[g].s] = 0]
          /\ pc' = [pc EXCEPT ![g] = "done"]
  /\ ctxDone' = [ctxDone EXCEPT ![g] = FALSE]
  /\ UNCHANGED <<req, ret, limit, index>>

\* ---------------------------------------------------------- Remote.Reader
ReaderReqs ==
  { [kind |-> "reader", s |-> s, existing |-> {ft}, allocate |-> FTNone,
     op |-> AcquireMove] : s \in Sectors, ft \in {FTUnsealed, FTSealed} }

\* a return statement of Reader or Remove (no deferred function to run)
Finish(g, e, rd) ==
  /\ ret' = [ret EXCEPT ![g] = [NoRet EXCEPT !.err = e, !.rd = rd]]
  /\ pc' = [pc EXCEPT ![g] = "done"]
  /\ loc' = [loc EXCEPT ![g] = NoLoc]
  /\ ctxDone' = [ctxDone EXCEPT ![g] = FALSE]

\* lines 423-425
Reader(g) ==
  /\ pc[g] = "idle"
  /\ UNCHANGED outsideRemote
  /\ \E r \in ReaderReqs :
       /\ InOrder(g, r)
       /\ req' = [req EXCEPT ![g] = r]
       /\ IF r.existing # {FTUnsealed}
          THEN Finish(g, "readerUnsupported", "")
          ELSE /\ pc' = [pc EXCEPT ![g] = "rdLocal"]
               /\ UNCHANGED <<ret, loc, ctxDone>>
  /\ UNCHANGED <<fetching, closed, limit, index, hist>>

\* lines 427-446 and 469-495: local.AcquireSector; the local file is read
\* through a partial file, else the index is asked for the remote stores
ReaderLocal(g) ==
  /\ pc[g] = "rdLocal"
  /\ UNCHANGED outsideRemote
  /\ \E out \in {"ok", "err", "absent"} :
       LET si == FindSector(req[g].s, FTUnsealed)
       IN CASE out = "err" /\ LocalID \in index[req[g].s][FTUnsealed] ->
                 \E e \in {"localAcquire", "partialFile"} : Finish(g, e, "")
            [] out = "err" /\ LocalID \notin index[req[g].s][FTUnsealed] ->
                 \E e \in {"localAcquire", "index"} : Finish(g, e, "")
            [] out = "absent" /\ LocalID \in index[req[g].s][FTUnsealed] ->
                 Finish(g, "", "nil")
            [] out = "ok" /\ LocalID \in index[req[g].s][FTUnsealed] ->
                 Finish(g, "", "local")
            [] out # "err" /\ LocalID \notin index[req[g].s][FTUnsealed] /\ si = {} ->
                 Finish(g, "notFound", "")
            [] OTHER ->
                 \E sq \in SortedByWeight(si) :
                   /\ loc' = [loc EXCEPT ![g].si = sq, ![g].li = 1, ![g].ui = 1]
                   /\ pc' = [pc EXCEPT ![g] = "rdCheck"]
                   /\ UNCHANGED <<ret, ctxDone>>
  /\ UNCHANGED <<req, fetching, closed, limit, index, hist>>

\* lines 449-468: the loops go on to the next URL; past the last one Reader
\* returns a nil reader and no error
ReaderContinue(g) ==
  LET l == Advance(loc[g])
  IN IF l.li > Len(l.si)
     THEN Finish(g, "", "nil")
     ELSE /\ loc' = [loc EXCEPT ![g] = l]
          /\ pc' = [pc EXCEPT ![g] = "rdCheck"]
          /\ UNCHANGED <<ret, ctxDone>>

\* lines 451-458 (Remote.checkAllocated, lines 298-321)
ReaderCheck(g) ==
  /\ pc[g] = "rdCheck"
  /\ UNCHANGED outsideRemote
  /\ \E out \in {"allocated", "notAllocated", "err"} :
       IF out = "allocated"
       THEN /\ pc' = [pc EXCEPT ![g] = "readWait"]
            /\ UNCHANGED <<ret, loc, ctxDone>>
       ELSE ReaderContinue(g)
  /\ UNCHANGED <<req, fetching, closed, limit, index, hist>>

\* lines 332-334: readRemote takes a token of r.limit
ReadAcquire(g) ==
  /\ pc[g] = "readWait"
  /\ UNCHANGED outsideRemote
  /\ limit < FetchLimit
  /\ limit' = limit + 1
  /\ hist' = [hist EXCEPT ![g].tokens = @ + 1]
  /\ pc' = [pc EXCEPT ![g] = "readHttp"]
  /\ UNCHANGED <<req, ctxDone, loc, ret, fetching, closed, index>>

\* lines 335-336 and 461-464: the context is done while readRemote waits
ReadCtxDone(g) ==
  /\ pc[g] = "readWait"
  /\ UNCHANGED outsideRemote
  /\ ctxDone[g]
  /\ ReaderContinue(g)
  /\ UNCHANGED <<req, fetching, closed, limit, index, hist>>

\* mutation of ReadDone: readRemote returns without giving its token back
ReadDoneKeepToken(g) ==
  /\ pc[g] = "readHttp"
  /\ UNCHANGED outsideRemote
  /\ hist' = [hist EXCEPT ![g].tokens = @ - 1]
  /\ \E ok \in BOOLEAN :
       IF ok THEN Finish(g, "", "remote") ELSE ReaderContinue(g)
  /\ UNCHANGED <<req, fetching, closed, limit, index>>

\* lines 339-357 and 460-466: the range GET ends and the deferred <-r.limit
\* runs as readRemote returns
ReadDone(g) ==
  /\ pc[g] = "readHttp"
  /\ UNCHANGED outsideRemote
  /\ limit' = limit - 1
  /\ hist' = [hist EXCEPT ![g].tokens = @ - 1]
  /\ \E ok \in BOOLEAN :
       IF ok THEN Finish(g, "", "remote") ELSE ReaderContinue(g)
  /\ UNCHANGED <<req, fetching, closed, index>>

\* ---------------------------------------------------------- Remote.Remove
RemoveReqs ==
  { [kind |-> "remove", s |-> s, existing |-> typ, allocate |-> FTNone,
     op |-> AcquireMove] : s \in Sectors, typ \in {{FTSealed}, {FTSealed, FTCache}} }

\* the orders in which the index may list the stores S
Orders(S) ==
  {sq \in [1..Cardinality(S) -> S] :
     \A i, j \in 1..Cardinality(S) : i # j => sq[i] # sq[j]}

\* lines 512-514
Remove(g) ==
  /\ pc[g] = "idle"
  /\ UNCHANGED outsideRemote
  /\ \E r \in RemoveReqs :
       /\ InOrder(g, r)
       /\ req' = [req EXCEPT ![g] = r]
       /\ IF Cardinality(r.existing) # 1
          THEN Finish(g, "removeOneType", "")
          ELSE /\ pc' = [pc EXCEPT ![g] = "rmLocal"]
               /\ UNCHANGED <<ret, loc, ctxDone>>
  /\ UNCHANGED <<fetching, closed, limit, index, hist>>

\* lines 516-523: local.Remove, which drops the local declaration, and
\* index.StorageFindSector
RemoveLocal(g) ==
  /\ pc[g] = "rmLocal"
  /\ UNCHANGED outsideRemote
  /\ \E out \in {"ok", "removeLocal", "index"} :
       LET typ == CHOOSE ft \in FileTypes : req[g].existing = {ft}
           si == FindSector(req[g].s, typ)
       IN /\ index' = IF out = "removeLocal" THEN index
                      ELSE [index EXCEPT ![req[g].s][typ] = @ \ {LocalID}]
          /\ IF out # "ok"
             THEN Finish(g, out, "")
             ELSE IF si = {}
             THEN Finish(g, "", "")
             ELSE \E sq \in Orders(si) :
                    /\ loc' = [loc EXCEPT ![g].si = sq, ![g].li = 1, ![g].ui = 1]
                    /\ pc' = [pc EXCEPT ![g] = "rmDelete"]
                    /\ UNCHANGED <<ret, ctxDone>>
  /\ UNCHANGED <<req, fetching, closed, limit, hist>>

\* mutation of RemoveDelete: the error of deleteFromRemote is returned
RemoveDeleteFatal(g) ==
  /\ pc[g] = "rmDelete"
  /\ UNCHANGED outsideRemote
  /\ \E ok \in BOOLEAN :
       LET l == [loc[g] EXCEPT !.li = @ + 1, !.ui = 1]
       IN /\ hist' = [hist EXCEPT ![g].deleted = req[g].existing, ![g].delErr = @ \/ ~ok]
          /\ IF ~ok
             THEN Finish(g, "delete", "")
             ELSE IF l.li > Len(l.si)
             THEN Finish(g, "", "")
             ELSE /\ loc' = [loc EXCEPT ![g] = l]
                  /\ UNCHANGED <<pc, ret, ctxDone>>
  /\ UNCHANGED <<req, fetching, closed, limit, index>>

\* lines 525-535: deleteFromRemote(url); after a failure the next URL of the
\* store is tried, after a success the next store
RemoveDelete(g) ==
  /\ pc[g] = "rmDelete"
  /\ UNCHANGED outsideRemote
  /\ \E ok \in BOOLEAN :
       LET l == IF ok THEN [loc[g] EXCEPT !.li = @ + 1, !.ui = 1] ELSE Advance(loc[g])
       IN /\ hist' = [hist EXCEPT ![g].deleted = req[g].existing, ![g].delErr = @ \/ ~ok]
          /\ IF l.li > Len(l.si)
             THEN Finish(g, "", "")
             ELSE /\ loc' = [loc EXCEPT ![g] = l]
                  /\ UNCHANGED <<pc, ret, ctxDone>>
  /\ UNCHANGED <<req, fetching, closed, limit, index>>

Next ==
  \E g \in Callers :
    \/ Reader(g)
    \/ ReaderLocal(g)
    \/ ReaderCheck(g)
    \/ ReadAcquire(g)
    \/ ReadCtxDone(g)
    \/ ReadDone(g)
    \/ Remove(g)
    \/ RemoveLocal(g)
    \/ RemoveDelete(g)
    \/ AcquireSector(g)
    \/ AcquireClaim(g)
    \/ AcquireWake(g)
    \/ AcquireCtxDone(g)
    \/ CtxCancel(g)
    \/ AcquireLocal(g)
    \/ AcquireAllocate(g)
    \/ AcquireReserve(g)
    \/ AcquireLoop(g)
    \/ AcquireFind(g)
    \/ FetchAcquire(g)
    \/ FetchCtxDone(g)
    \/ FetchDone(g)
    \/ AcquireDeclare(g)
    \/ AcquireDelete(g)
    \/ AcquireRelease(g)

Spec == Init /\ [][Next]_vars

\* the steps of goroutine g once its call has started; the scheduler runs every
\* goroutine that can step, and every HTTP request and store call ends
Step(g) ==
  \/ AcquireClaim(g) \/ AcquireWake(g) \/ AcquireCtxDone(g) \/ AcquireLocal(g)
  \/ AcquireAllocate(g) \/ AcquireReserve(g) \/ AcquireLoop(g) \/ AcquireFind(g)
  \/ FetchAcquire(g) \/ FetchCtxDone(g) \/ FetchDone(g) \/ AcquireDeclare(g)
  \/ AcquireDelete(g) \/ AcquireRelease(g)
  \/ ReaderLocal(g) \/ ReaderCheck(g) \/ ReadAcquire(g) \/ ReadCtxDone(g) \/ ReadDone(g)
  \/ RemoveLocal(g) \/ RemoveDelete(g)

SpecFair == Spec /\ \A g \in Callers : WF_vars(Step(g))

\* ------------------------------------------------------- Consensus.Commit
\* as for the Remote store, the callers are numbered in the order of their
\* calls
CallKey(f) ==
  (CASE f.kind = "commit" -> 0 [] f.kind = "addPeer" -> 20 [] OTHER -> 40)
  + (IF f.node = "p1" THEN 0 ELSE 10)
  + f.op.Nonce * 2 + (IF f.op.Addr = "B" THEN 1 ELSE 0)

CallInOrder(c, f) ==
  \A d \in Callers \ {c} :
    call[d].pc # "idle" =>
      IF d < c THEN CallKey(call[d]) <= CallKey(f) ELSE CallKey(f) <= CallKey(call[d])

\* line 372 and 385: Commit(ctx, op) is called on node n
Commit(c) ==
  /\ call[c].pc = "idle"
  /\ \E n \in Peers, op \in Ops :
       LET f == [NoCall EXCEPT !.kind = "commit", !.node = n, !.op = op, !.pc = "commitOp"]
       IN /\ CallInOrder(c, f)
          /\ call' = [call EXCEPT ![c] = f]
  /\ UNCHANGED <<leader, elections, rlog, applied, raftState, raftPeers>>
  /\ UNCHANGED outsideRaft

\* mutation of CommitOp: on a node that is not the leader the op is sent to
\* the leader by RPC, which commits it
CommitOpForward(c) ==
  /\ call[c].pc = "commitOp"
  /\ \E ok \in BOOLEAN :
       /\ ok => leader # None /\ applied[leader] = Len(rlog)
       /\ rlog' = IF ok THEN Append(rlog, call[c].op) ELSE rlog
       /\ applied' = IF ok THEN [applied EXCEPT ![leader] = @ + 1] ELSE applied
       /\ raftState' = IF ok THEN [raftState EXCEPT ![leader] = ApplyTo(call[c].op, @)]
                       ELSE raftState
       /\ call' = [call EXCEPT ![c].finalErr = IF ok THEN "" ELSE "commit",
                               ![c].commitOps = @ + 1,
                               ![c].commitOk = IF ok THEN @ + 1 ELSE @,
                               ![c].rpcs = IF leader # call[c].node THEN @ + 1 ELSE @,
                               ![c].late = @ \/ call[c].ctxDone,
                               ![c].again = @ \/ call[c].commitOk > 0,
                               ![c].pc = "commitSleep"]
  /\ UNCHANGED <<leader, elections, raftPeers>>
  /\ UNCHANGED outsideRaft

\* lines 386-412: one attempt, cc.consensus.CommitOp(op); the raft engine
\* accepts an op only on the leader, once the leader has applied the log it
\* holds; it appends the op to the log and CommitOp returns when the leader's
\* FSM has applied it
CommitOp(c) ==
  /\ call[c].pc = "commitOp"
  /\ \E ok \in BOOLEAN :
       /\ ok => leader = call[c].node /\ applied[leader] = Len(rlog)
       /\ rlog' = IF ok THEN Append(rlog, call[c].op) ELSE rlog
       /\ applied' = IF ok THEN [applied EXCEPT ![call[c].node] = @ + 1] ELSE applied
       /\ raftState' = IF ok THEN [raftState EXCEPT ![call[c].node] = ApplyTo(call[c].op, @)]
                       ELSE raftState
       /\ call' = [call EXCEPT ![c].finalErr = IF ok THEN "" ELSE "commit",
                               ![c].commitOps = @ + 1,
                               ![c].commitOk = IF ok THEN @ + 1 ELSE @,
                               ![c].late = @ \/ call[c].ctxDone,
                               ![c].again = @ \/ call[c].commitOk > 0,
                               ![c].pc = "commitSleep"]
  /\ UNCHANGED <<leader, elections, raftPeers>>
  /\ UNCHANGED outsideRaft

\* lines 414-417: the RETRY label, reached after a failure and after a success
\* alike: time.Sleep, i++, and the return of finalErr once i > CommitRetries
CommitSleep(c) ==
  /\ call[c].pc = "commitSleep"
  /\ call' = IF call[c].i + 1 <= CommitRetries
             THEN [call EXCEPT ![c].i = @ + 1, ![c].pc = "commitOp"]
             ELSE [call EXCEPT ![c].i = 0, ![c].pc = "done", ![c].ctxDone = FALSE,
                               ![c].ret = call[c].finalErr, ![c].finalErr = ""]
  /\ UNCHANGED <<leader, elections, rlog, applied, raftState, raftPeers>>
  /\ UNCHANGED outsideRaft

\* the context passed to Commit, AddPeer or RmPeer is cancelled (environment),
\* taken to happen while the call sleeps between two attempts
RaftCtxCancel(c) ==
  /\ call[c].pc \in {"commitSleep", "redirectSleep", "peerSleep"}
  /\ ~call[c].ctxDone
  /\ call' = [call EXCEPT ![c].ctxDone = TRUE]
  /\ UNCHANGED <<leader, elections, rlog, applied, raftState, raftPeers>>
  /\ UNCHANGED outsideRaft

\* ---------------------------------------- Consensus.AddPeer and RmPeer
\* lines 427-432 (459-464): the head of an attempt, which calls
\* RedirectToLeader (lines 313-315)
BeginAttempt(f) ==
  [f EXCEPT !.ri = 0, !.rFinalErr = "", !.target = None, !.ok = FALSE, !.err = "",
            !.rpcs = 0, !.rpcOk = 0, !.lookups = 0, !.pc = "redirectLeader"]

\* line 422: AddPeer(ctx, pid) is called on node n
AddPeer(c) ==
  /\ call[c].pc = "idle"
  /\ \E n \in Peers :
       LET f == BeginAttempt([NoCall EXCEPT !.kind = "addPeer", !.node = n])
       IN /\ CallInOrder(c, f)
          /\ call' = [call EXCEPT ![c] = f]
  /\ UNCHANGED <<leader, elections, rlog, applied, raftState, raftPeers>>
  /\ UNCHANGED outsideRaft

\* line 454: RmPeer(ctx, pid) is called on node n
RmPeer(c) ==
  /\ call[c].pc = "idle"
  /\ \E n \in Peers :
       LET f == BeginAttempt([NoCall EXCEPT !.kind = "rmPeer", !.node = n])
       IN /\ CallInOrder(c, f)
          /\ call' = [call EXCEPT ![c] = f]
  /\ UNCHANGED <<leader, elections, rlog, applied, raftState, raftPeers>>
  /\ UNCHANGED outsideRaft

\* the membership after the change that call record f asks for
Changed(f) ==
  IF f.kind = "addPeer" THEN raftPeers \cup {NewPeer} ELSE raftPeers \ {NewPeer}

\* mutation of RedirectReturn: the caller returns only on an error, and goes
\* on to the local engine when the request was redirected
RedirectReturnOnError(f, ok, err) ==
  IF err # ""
  THEN [f EXCEPT !.ok = ok, !.err = err, !.ret = err, !.pc = "done", !.ctxDone = FALSE,
                 !.i = 0, !.ri = 0, !.rFinalErr = "", !.finalErr = ""]
  ELSE [f EXCEPT !.ok = ok, !.err = err, !.pc = "peerApply", !.ri = 0, !.rFinalErr = ""]

\* a return (ok, err) of RedirectToLeader to AddPeer / RmPeer, and lines
\* 433-435 (465-467): the call returns err when err != nil || ok
RedirectReturn(f, ok, err) ==
  IF err # "" \/ ok
  THEN [f EXCEPT !.ok = ok, !.err = err, !.ret = err, !.pc = "done", !.ctxDone = FALSE,
                 !.i = 0, !.ri = 0, !.rFinalErr = "", !.finalErr = ""]
  ELSE [f EXCEPT !.ok = ok, !.err = err, !.pc = "peerApply", !.ri = 0, !.rFinalErr = ""]

\* lines 343-348: the leader found is this node, or the RPC is next
FoundLeader(f, l) ==
  IF l = f.node
  THEN RedirectReturn([f EXCEPT !.target = l], FALSE, "")
  ELSE [f EXCEPT !.target = l, !.pc = "redirectCall"]

\* lines 318-323: cc.Leader(ctx) at the head of a redirect try
RedirectLeader(c) ==
  /\ call[c].pc = "redirectLeader"
  /\ LET f == [call[c] EXCEPT !.lookups = @ + 1, !.late = @ \/ call[c].ctxDone]
     IN call' = [call EXCEPT ![c] = IF leader = None
                                    THEN [f EXCEPT !.pc = "redirectWait"]
                                    ELSE FoundLeader(f, leader)]
  /\ UNCHANGED <<leader, elections, rlog, applied, raftState, raftPeers>>
  /\ UNCHANGED outsideRaft

\* mutation of RedirectWait: a timeout is an error like that of the RPC, and
\* the loop goes on to the next try
RedirectWaitRetry(c) ==
  /\ call[c].pc = "redirectWait"
  /\ LET f == [call[c] EXCEPT !.lookups = @ + 1, !.late = @ \/ call[c].ctxDone]
     IN \E out \in {"timeout", "decode", "leader"} :
          /\ out # "timeout" => leader # None
          /\ call' = [call EXCEPT ![c] =
                        CASE out = "leader" -> FoundLeader(f, leader)
                          [] out = "timeout" -> [f EXCEPT !.rFinalErr = out, !.pc = "redirectSleep"]
                          [] OTHER -> RedirectReturn(f, FALSE, out)]
  /\ UNCHANGED <<leader, elections, rlog, applied, raftState, raftPeers>>
  /\ UNCHANGED outsideRaft

\* lines 324-341: cc.raft.WaitForLeader(rctx) ends: with a timeout, or with a
\* leader, whose ID peer.Decode may reject
RedirectWait(c) ==
  /\ call[c].pc = "redirectWait"
  /\ LET f == [call[c] EXCEPT !.lookups = @ + 1, !.late = @ \/ call[c].ctxDone]
     IN \E out \in {"timeout", "decode", "leader"} :
          /\ out # "timeout" => leader # None
          /\ call' = [call EXCEPT ![c] =
                        IF out = "leader" THEN FoundLeader(f, leader)
                        ELSE RedirectReturn(f, FALSE, out)]
  /\ UNCHANGED <<leader, elections, rlog, applied, raftState, raftPeers>>
  /\ UNCHANGED outsideRaft

\* lines 350-364: cc.rpcClient.CallContext to the leader found; the call
\* succeeds only if that node is still the leader, which then makes the change
RedirectCall(c) ==
  /\ call[c].pc = "redirectCall"
  /\ \E ok \in BOOLEAN :
       LET f == [call[c] EXCEPT !.rpcs = @ + 1, !.rpcOk = IF ok THEN @ + 1 ELSE @,
                                !.late = @ \/ call[c].ctxDone,
                                !.again = @ \/ call[c].rpcOk > 0]
       IN /\ ok => leader = call[c].target
          /\ raftPeers' = IF ok THEN Changed(call[c]) ELSE raftPeers
          /\ call' = [call EXCEPT ![c] =
                        IF ok THEN RedirectReturn(f, TRUE, "")
                        ELSE [f EXCEPT !.rFinalErr = "rpc", !.pc = "redirectSleep"]]
  /\ UNCHANGED <<leader, elections, rlog, applied, raftState>>
  /\ UNCHANGED outsideRaft

\* mutation of RedirectSleep: the loop makes one try more
RedirectSleepOneMore(c) ==
  /\ call[c].pc = "redirectSleep"
  /\ call' = [call EXCEPT ![c] =
                IF call[c].ri + 1 <= CommitRetries + 1
                THEN [call[c] EXCEPT !.ri = @ + 1, !.pc = "redirectLeader"]
                ELSE RedirectReturn(call[c], TRUE, call[c].rFinalErr)]
  /\ UNCHANGED <<leader, elections, rlog, applied, raftState, raftPeers>>
  /\ UNCHANGED outsideRaft

\* lines 361-368: time.Sleep, i++, and the return of (true, finalErr) once
\* i > CommitRetries
RedirectSleep(c) ==
  /\ call[c].pc = "redirectSleep"
  /\ call' = [call EXCEPT ![c] =
                IF call[c].ri + 1 <= CommitRetries
                THEN [call[c] EXCEPT !.ri = @ + 1, !.pc = "redirectLeader"]
                ELSE RedirectReturn(call[c], TRUE, call[c].rFinalErr)]
  /\ UNCHANGED <<leader, elections, rlog, applied, raftState, raftPeers>>
  /\ UNCHANGED outsideRaft

\* lines 439-447 (470-477): cc.raft.AddPeer / RemovePeer on this node; the
\* raft engine changes the membership only on the leader
PeerApply(c) ==
  /\ call[c].pc = "peerApply"
  /\ \E ok \in BOOLEAN :
       LET f == [call[c] EXCEPT !.applies = @ + 1, !.applyOk = IF ok THEN @ + 1 ELSE @,
                                !.late = @ \/ call[c].ctxDone,
                                !.blind = @ \/ call[c].target # call[c].node,
                                !.again = @ \/ call[c].applyOk > 0]
       IN /\ ok => leader = call[c].node
          /\ raftPeers' = IF ok THEN Changed(call[c]) ELSE raftPeers
          /\ call' = [call EXCEPT ![c] =
                        IF ok THEN [f EXCEPT !.ret = "", !.pc = "done", !.ctxDone = FALSE,
                                             !.i = 0, !.finalErr = ""]
                        ELSE [f EXCEPT !.finalErr = "raft", !.pc = "peerSleep"]]
  /\ UNCHANGED <<leader, elections, rlog, applied, raftState>>
  /\ UNCHANGED outsideRaft

\* lines 443-444 and 449 (473-474 and 479): time.Sleep, i++, and the return
\* of finalErr once i > CommitRetries
PeerSleep(c) ==
  /\ call[c].pc = "peerSleep"
  /\ call' = [call EXCEPT ![c] =
                IF call[c].i + 1 <= CommitRetries
                THEN BeginAttempt([call[c] EXCEPT !.i = @ + 1])
                ELSE [call[c] EXCEPT !.ret = call[c].finalErr, !.pc = "done",
                                     !.ctxDone = FALSE, !.i = 0, !.finalErr = ""]]
  /\ UNCHANGED <<leader, elections, rlog, applied, raftState, raftPeers>>
  /\ UNCHANGED outsideRaft

\* ------------------------------------------------ the raft engine (env)
\* the cluster loses its leader, or elects one when it has none
Elect(l) ==
  /\ elections < MaxElections
  /\ (leader = None) # (l = None)
  /\ leader' = l
  /\ elections' = elections + 1
  /\ UNCHANGED <<rlog, applied, raftState, raftPeers, call>>
  /\ UNCHANGED outsideRaft

\* the FSM of replica p applies the next entry of the log
Apply(p) ==
  /\ applied[p] < Len(rlog)
  /\ raftState' = [raftState EXCEPT ![p] = ApplyTo(rlog[applied[p] + 1], @)]
  /\ applied' = [applied EXCEPT ![p] = @ + 1]
  /\ UNCHANGED <<leader, elections, rlog, raftPeers, call>>
  /\ UNCHANGED outsideRaft

\* node p, which had no part in the commit of a message, receives it from the
\* network into its own message pool
MpoolPush(p) ==
  /\ p # "p1"
  /\ "m1" \notin raftState[p].Mpool.held
  /\ raftState' = [raftState EXCEPT ![p].Mpool.held = @ \cup {"m1"}]
  /\ UNCHANGED <<leader, elections, rlog, applied, raftPeers, call>>
  /\ UNCHANGED outsideRaft

NextRaft ==
  \/ \E c \in Callers :
       \/ Commit(c)
       \/ CommitOp(c)
       \/ CommitSleep(c)
       \/ RaftCtxCancel(c)
       \/ AddPeer(c)
       \/ RmPeer(c)
       \/ RedirectLeader(c)
       \/ RedirectWait(c)
       \/ RedirectCall(c)
       \/ RedirectSleep(c)
       \/ PeerApply(c)
       \/ PeerSleep(c)
  \/ \E l \in Peers \cup {None} : Elect(l)
  \/ \E p \in Peers : Apply(p)
  \/ \E p \in Peers : MpoolPush(p)

SpecRaft == Init /\ [][NextRaft]_raftVars

\* the steps of a started call of caller c: the scheduler runs it, and every
\* sleep, RPC and engine call ends
CallStep(c) ==
  \/ CommitOp(c) \/ CommitSleep(c)
  \/ RedirectLeader(c) \/ RedirectWait(c) \/ RedirectCall(c) \/ RedirectSleep(c)
  \/ PeerApply(c) \/ PeerSleep(c)

\* fair scheduling of the calls, and every replica goes on applying the log
SpecRaftFair ==
  /\ SpecRaft
  /\ \A c \in Callers : WF_raftVars(CallStep(c))
  /\ \A p \in Peers : WF_raftVars(Apply(p))

\* ------------------------------------------- Consensus: bootstrap, Shutdown
\* a Shutdown call has panicked: the process is gone
Panicked == \E c \in Callers : shut[c] = "panic"

\* lines 116-165: NewConsensus returns cc to a caller that uses it without an
\* RPC client; hs is cfg.HostShutdown
NewConsensus(hs) ==
  /\ ctor = "new" /\ ~Panicked
  /\ ctor' = "plain"
  /\ hostShutdown' = hs
  /\ UNCHANGED <<bootPc, bootLog, rpcReady, readyCh, ctxCancelled, cancelAt, raftDown,
                 hostClosed, shut>>
  /\ UNCHANGED outsideBoot

\* lines 167-183: NewConsensusWithRPCClient sets the client, sends on
\* cc.rpcReady and returns cc
NewConsensusWithRPCClient(hs) ==
  /\ ctor = "new" /\ ~Panicked
  /\ ctor' = "rpc"
  /\ hostShutdown' = hs
  /\ rpcReady' = [rpcReady EXCEPT !.buf = @ + 1]
  /\ UNCHANGED <<bootPc, bootLog, readyCh, ctxCancelled, cancelAt, raftDown, hostClosed, shut>>
  /\ UNCHANGED outsideBoot

\* lines 231-235: the select of finishBootstrap; a receive from cc.rpcReady
\* is ready when a value is buffered and when the channel is closed, and
\* select chooses among the ready cases
BootSelect ==
  /\ bootPc = "select" /\ ~Panicked
  /\ \/ /\ ctxCancelled
        /\ bootPc' = "end"
        /\ UNCHANGED <<bootLog, rpcReady>>
     \/ /\ rpcReady.buf > 0
        /\ rpcReady' = [rpcReady EXCEPT !.buf = @ - 1]
        /\ bootLog' = Append(bootLog, "rpc")
        /\ bootPc' = "bootstrap"
     \/ /\ rpcReady.buf = 0 /\ rpcReady.closed
        /\ bootLog' = Append(bootLog, "closed")
        /\ bootPc' = "bootstrap"
        /\ UNCHANGED rpcReady
  /\ UNCHANGED <<ctor, hostShutdown, readyCh, ctxCancelled, cancelAt, raftDown, hostClosed, shut>>
  /\ UNCHANGED outsideBoot

\* mutation of BootStep: an error of the step is ignored
BootStepIgnoreErr(at, step, next, usesCtx) ==
  /\ bootPc = at /\ ~Panicked
  /\ \E ok \in BOOLEAN :
       /\ bootLog' = IF ok THEN Append(bootLog, step) ELSE bootLog
       /\ bootPc' = next
  /\ UNCHANGED <<ctor, hostShutdown, rpcReady, readyCh, ctxCancelled, cancelAt, raftDown,
                 hostClosed, shut>>
  /\ UNCHANGED outsideBoot

\* one engine call of finishBootstrap / WaitForSync at position `at`: it
\* succeeds or returns an error, and a wait that is given the context
\* returns an error once the context is cancelled
BootStep(at, step, next, usesCtx) ==
  /\ bootPc = at /\ ~Panicked
  /\ \E ok \in BOOLEAN :
       /\ ok /\ usesCtx => ~ctxCancelled
       /\ bootLog' = IF ok THEN Append(bootLog, step) ELSE bootLog
       /\ bootPc' = IF ok THEN next ELSE "end"
  /\ UNCHANGED <<ctor, hostShutdown, rpcReady, readyCh, ctxCancelled, cancelAt, raftDown,
                 hostClosed, shut>>
  /\ UNCHANGED outsideBoot

\* lines 239-242: cc.raft.Bootstrap()
Bootstrap == BootStep("bootstrap", "bootstrap", "waitLeader", FALSE)

\* lines 190-212: cc.raft.WaitForLeader(leaderCtx)
WaitForLeader == BootStep("waitLeader", "leader", "waitVoter", TRUE)

\* lines 214-217: cc.raft.WaitForVoter(ctx)
WaitForVoter == BootStep("waitVoter", "voter", "waitUpdates", TRUE)

\* lines 219-223, 245-248: cc.raft.WaitForUpdates(ctx), WaitForSync returns
WaitForUpdates == BootStep("waitUpdates", "updates", "send", TRUE)

\* line 251: cc.readyCh <- struct{}{} (the channel has room for one value)
BootReady ==
  /\ bootPc = "send" /\ ~Panicked
  /\ readyCh = 0
  /\ readyCh' = readyCh + 1
  /\ bootLog' = Append(bootLog, "ready")
  /\ bootPc' = "end"
  /\ UNCHANGED <<ctor, hostShutdown, rpcReady, ctxCancelled, cancelAt, raftDown, hostClosed, shut>>
  /\ UNCHANGED outsideBoot

\* lines 257-279: Shutdown is called; cc.raft.Shutdown(ctx), whose error is
\* only logged, and cc.host.Close() when the configuration asks for it
Shutdown(c) ==
  /\ shut[c] = "idle" /\ ctor # "new" /\ ~Panicked
  /\ \A d \in Callers : d < c => shut[d] # "idle"
  /\ raftDown' = TRUE
  /\ hostClosed' = (hostClosed \/ hostShutdown)
  /\ shut' = [shut EXCEPT ![c] = "cancel"]
  /\ UNCHANGED <<ctor, hostShutdown, bootPc, bootLog, rpcReady, readyCh, ctxCancelled, cancelAt>>
  /\ UNCHANGED outsideBoot

\* line 282: cc.cancel()
ShutdownCancel(c) ==
  /\ shut[c] = "cancel" /\ ~Panicked
  /\ ctxCancelled' = TRUE
  /\ cancelAt' = IF ctxCancelled THEN cancelAt ELSE Len(bootLog)
  /\ shut' = [shut EXCEPT ![c] = "close"]
  /\ UNCHANGED <<ctor, hostShutdown, bootPc, bootLog, rpcReady, readyCh, raftDown, hostClosed>>
  /\ UNCHANGED outsideBoot

\* lines 283-284: close(cc.rpcReady), which panics on a closed channel, and
\* return nil
ShutdownClose(c) ==
  /\ shut[c] = "close" /\ ~Panicked
  /\ rpcReady' = [rpcReady EXCEPT !.closed = TRUE]
  /\ shut' = [shut EXCEPT ![c] = IF rpcReady.closed THEN "panic" ELSE "nil"]
  /\ UNCHANGED <<ctor, hostShutdown, bootPc, bootLog, readyCh, ctxCancelled, cancelAt,
                 raftDown, hostClosed>>
  /\ UNCHANGED outsideBoot

NextBoot ==
  \/ \E hs \in BOOLEAN : NewConsensus(hs)
  \/ \E hs \in BOOLEAN : NewConsensusWithRPCClient(hs)
  \/ BootSelect
  \/ Bootstrap
  \/ WaitForLeader
  \/ WaitForVoter
  \/ WaitForUpdates
  \/ BootReady
  \/ \E c \in Callers :
       \/ Shutdown(c)
       \/ ShutdownCancel(c)
       \/ ShutdownClose(c)

SpecBoot == Init /\ [][NextBoot]_bootVars

\* ------------------------------------------------------------ LocalWorker
\* lines 92-155: newLocalWorker on a store that holds the records of `list`;
\* when unfinished() fails no record is returned
newLocalWorker(list) ==
  /\ replay.pc = "new"
  /\ tracker' = [id \in CallIDs |->
                  IF \E i \in 1..Len(list) : list[i] = id THEN OldState[id] ELSE "absent"]
  /\ \E readOk \in BOOLEAN :
       replay' = [replay EXCEPT !.list = IF readOk THEN list ELSE <<>>,
                                !.pc = IF readOk /\ list # <<>> THEN "deliver" ELSE "end"]
  /\ UNCHANGED <<task, stageLock, runningTasks, running, quiet, closing, delivered>>
  /\ UNCHANGED outsideWorker

\* mutation of ReplayDeliver: a failed call of the return function is
\* taken for a delivery
ReplayDeliverBlind(ok) ==
  /\ replay.pc = "deliver"
  /\ delivered' = IF ok THEN [delivered EXCEPT ![replay.list[replay.idx]] = Append(@, "restart")]
                        ELSE delivered
  /\ replay' = [replay EXCEPT !.pc = "returned"]
  /\ UNCHANGED <<task, tracker, stageLock, runningTasks, running, quiet, closing>>
  /\ UNCHANGED outsideWorker

\* line 149: one call of the return function for the current record with
\* (nil, ErrTempWorkerRestart); the manager accepts it or returns an error
ReplayDeliver(ok) ==
  /\ replay.pc = "deliver"
  /\ delivered' = IF ok THEN [delivered EXCEPT ![replay.list[replay.idx]] = Append(@, "restart")]
                        ELSE delivered
  /\ replay' = [replay EXCEPT !.pc = IF ok THEN "returned" ELSE "sleep"]
  /\ UNCHANGED <<task, tracker, stageLock, runningTasks, running, quiet, closing>>
  /\ UNCHANGED outsideWorker

\* lines 391-393 with context.TODO(): only the timer ends the select
ReplaySleep ==
  /\ replay.pc = "sleep"
  /\ replay' = [replay EXCEPT !.pc = "deliver"]
  /\ UNCHANGED <<task, tracker, stageLock, runningTasks, running, quiet, closing, delivered>>
  /\ UNCHANGED outsideWorker

\* lines 150-154: w.ct.onReturned(call.ID) deletes the record, and the loop
\* goes to the next record
ReplayReturned ==
  /\ replay.pc = "returned"
  /\ tracker' = [tracker EXCEPT ![replay.list[replay.idx]] = "absent"]
  /\ replay' = [replay EXCEPT !.idx = @ + 1,
                              !.pc = IF replay.idx < Len(replay.list) THEN "deliver" ELSE "end"]
  /\ UNCHANGED <<task, stageLock, runningTasks, running, quiet, closing, delivered>>
  /\ UNCHANGED outsideWorker

\* lines 330-342: asyncCall for a call of kind k: onStart, whose error is
\* only logged, l.running.Add(1), go func()
asyncCall(t, k) ==
  /\ task[t].pc = "idle" /\ replay.pc # "new"
  /\ \A u \in Tasks : u < t => task[u].pc # "idle"
  /\ \E stored \in BOOLEAN :
       /\ tracker' = IF stored THEN [tracker EXCEPT ![t] = "started"] ELSE tracker
       /\ task' = [task EXCEPT ![t] = [NoTask EXCEPT !.kind = k, !.pc = "work",
                      !.ev = IF stored THEN <<"onStart">> ELSE <<"onStartErr">>]]
  /\ running' = running + 1
  /\ quiet' = FALSE
  /\ UNCHANGED <<stageLock, runningTasks, closing, delivered, replay>>
  /\ UNCHANGED outsideWorker

\* lines 514-528: SealPreCommit1 fails before it takes the mutex
WorkFailEarly(t) ==
  /\ task[t].pc = "work" /\ task[t].kind = TTPreCommit1
  /\ task' = [task EXCEPT ![t].err = TRUE, ![t].pc = "finish", ![t].kind = ""]
  /\ UNCHANGED <<tracker, stageLock, runningTasks, running, quiet, closing, delivered, replay>>
  /\ UNCHANGED outsideWorker

\* mutation of StageLock: the mutex is taken although it is held
StageLockAny(t) ==
  /\ task[t].pc = "work" /\ task[t].kind \in Stages
  /\ stageLock' = [stageLock EXCEPT ![task[t].kind] = t]
  /\ task' = [task EXCEPT ![t].pc = "locked"]
  /\ UNCHANGED <<tracker, runningTasks, running, quiet, closing, delivered, replay>>
  /\ UNCHANGED outsideWorker

\* lines 531, 549, 578: l.p1Mutex.Lock() / p2Mutex / c2Mutex
StageLock(t) ==
  /\ task[t].pc = "work" /\ task[t].kind \in Stages
  /\ stageLock[task[t].kind] = 0
  /\ stageLock' = [stageLock EXCEPT ![task[t].kind] = t]
  /\ task' = [task EXCEPT ![t].pc = "locked"]
  /\ UNCHANGED <<tracker, runningTasks, running, quiet, closing, delivered, replay>>
  /\ UNCHANGED outsideWorker

\* lines 691-701: counterTask under taskLk
counterTask(tasktype, c) ==
  IF tasktype \notin DOMAIN runningTasks
  THEN Put(runningTasks, tasktype, c)
  ELSE Put(runningTasks, tasktype, runningTasks[tasktype] + c)

\* lines 532, 550, 579: l.counterTask(tt, 1)
CounterUp(t) ==
  /\ task[t].pc = "locked"
  /\ runningTasks' = counterTask(task[t].kind, 1)
  /\ task' = [task EXCEPT ![t].pc = "exec"]
  /\ UNCHANGED <<tracker, stageLock, running, quiet, closing, delivered, replay>>
  /\ UNCHANGED outsideWorker

\* lines 538, 556, 585 and the first statement of the deferred function: the
\* call of the proof library returns and the stage mutex is unlocked
StageExec(t) ==
  /\ task[t].pc = "exec"
  /\ \E ok \in BOOLEAN : task' = [task EXCEPT ![t].err = ~ok, ![t].pc = "unlocked"]
  /\ stageLock' = [stageLock EXCEPT ![task[t].kind] = 0]
  /\ UNCHANGED <<tracker, runningTasks, running, quiet, closing, delivered, replay>>
  /\ UNCHANGED outsideWorker

\* mutation of CounterDown: the counter is decremented on success only
CounterDownOnSuccess(t) ==
  /\ task[t].pc = "unlocked"
  /\ runningTasks' = IF task[t].err THEN runningTasks ELSE counterTask(task[t].kind, -1)
  /\ task' = [task EXCEPT ![t].pc = "finish", ![t].kind = ""]
  /\ UNCHANGED <<tracker, stageLock, running, quiet, closing, delivered, replay>>
  /\ UNCHANGED outsideWorker

\* lines 535, 553, 582: l.counterTask(tt, -1), after the unlock
CounterDown(t) ==
  /\ task[t].pc = "unlocked"
  /\ runningTasks' = counterTask(task[t].kind, -1)
  /\ task' = [task EXCEPT ![t].pc = "finish", ![t].kind = ""]
  /\ UNCHANGED <<tracker, stageLock, running, quiet, closing, delivered, replay>>
  /\ UNCHANGED outsideWorker

\* lines 426-433, 566-568, 595-609: the work function of AddPiece,
\* SealCommit1 or FinalizeSector returns
PlainExec(t) ==
  /\ task[t].pc = "work" /\ task[t].kind \notin Stages
  /\ \E ok \in BOOLEAN : task' = [task EXCEPT ![t].err = ~ok, ![t].pc = "finish", ![t].kind = ""]
  /\ UNCHANGED <<tracker, stageLock, runningTasks, running, quiet, closing, delivered, replay>>
  /\ UNCHANGED outsideWorker

\* lines 352-361: `if err != nil`: the result is marshalled and onDone marks
\* the record, if there is one, as done
AfterWork(t) ==
  /\ task[t].pc = "finish"
  /\ IF task[t].err
     THEN /\ tracker' = IF tracker[t] = "absent" THEN tracker ELSE [tracker EXCEPT ![t] = "done"]
          /\ task' = [task EXCEPT ![t].pc = "return", ![t].ev = Append(@, "onDone")]
     ELSE /\ task' = [task EXCEPT ![t].pc = "return"]
          /\ UNCHANGED tracker
  /\ UNCHANGED <<stageLock, runningTasks, running, quiet, closing, delivered, replay>>
  /\ UNCHANGED outsideWorker

\* mutation of Deliver: a failed call of the return function is taken for
\* a delivery
DeliverOnce(t, ok) ==
  /\ task[t].pc = "return"
  /\ delivered' = IF ok THEN [delivered EXCEPT ![t] = Append(@, IF task[t].err THEN "err" ELSE "res")]
                        ELSE delivered
  /\ task' = [task EXCEPT ![t].pc = "returned",
                          ![t].ev = IF ok THEN Append(@, "deliver") ELSE @]
  /\ UNCHANGED <<tracker, stageLock, runningTasks, running, quiet, closing, replay>>
  /\ UNCHANGED outsideWorker

\* lines 385-388: one call of returnFunc[rt]; the manager accepts the return
\* or returns an error
Deliver(t, ok) ==
  /\ task[t].pc = "return"
  /\ delivered' = IF ok THEN [delivered EXCEPT ![t] = Append(@, IF task[t].err THEN "err" ELSE "res")]
                        ELSE delivered
  /\ task' = [task EXCEPT ![t].pc = IF ok THEN "returned" ELSE "sleep",
                          ![t].ev = IF ok THEN Append(@, "deliver") ELSE @]
  /\ UNCHANGED <<tracker, stageLock, runningTasks, running, quiet, closing, replay>>
  /\ UNCHANGED outsideWorker

\* lines 391-393: the timer ends the select and the loop goes round
RetrySleep(t) ==
  /\ task[t].pc = "sleep"
  /\ task' = [task EXCEPT ![t].pc = "return"]
  /\ UNCHANGED <<tracker, stageLock, runningTasks, running, quiet, closing, delivered, replay>>
  /\ UNCHANGED outsideWorker

\* mutation of wctxDone: the context of the task is the caller's context
wctxDoneOfCaller(t) == task[t].ctxDone

\* lines 345-348, 822-824: the context of task t is a wctx, whose Done() is
\* l.closing
wctxDone(t) == closing

\* lines 393-399, 343: ctx.Done() ends the select, doReturn returns false
\* and the goroutine ends
RetryAbort(t) ==
  /\ task[t].pc = "sleep" /\ wctxDone(t)
  /\ task' = [task EXCEPT ![t].pc = "ended", ![t].ret = "false", ![t].kind = "",
                          ![t].ctxDone = FALSE]
  /\ running' = running - 1
  /\ UNCHANGED <<tracker, stageLock, runningTasks, quiet, closing, delivered, replay>>
  /\ UNCHANGED outsideWorker

\* mutation of OnReturned: the record is kept
OnReturnedKeep(t) ==
  /\ task[t].pc = "returned"
  /\ task' = [task EXCEPT ![t].pc = "ended", ![t].ret = "true", ![t].kind = "",
                          ![t].ctxDone = FALSE, ![t].ev = Append(@, "onReturned")]
  /\ running' = running - 1
  /\ UNCHANGED <<tracker, stageLock, runningTasks, quiet, closing, delivered, replay>>
  /\ UNCHANGED outsideWorker

\* lines 403, 363-367, 343: doReturn returns true, onReturned deletes the
\* record and the goroutine ends
OnReturned(t) ==
  /\ task[t].pc = "returned"
  /\ tracker' = [tracker EXCEPT ![t] = "absent"]
  /\ task' = [task EXCEPT ![t].pc = "ended", ![t].ret = "true", ![t].kind = "",
                          ![t].ctxDone = FALSE, ![t].ev = Append(@, "onReturned")]
  /\ running' = running - 1
  /\ UNCHANGED <<stageLock, runningTasks, quiet, closing, delivered, replay>>
  /\ UNCHANGED outsideWorker

\* the caller's context, which asyncCall was given, is cancelled or expires
\* while the goroutine of the call runs
CallerCancel(t) ==
  /\ task[t].pc \notin {"idle", "ended"} /\ ~task[t].ctxDone
  /\ task' = [task EXCEPT ![t].ctxDone = TRUE]
  /\ UNCHANGED <<tracker, stageLock, runningTasks, running, quiet, closing, delivered, replay>>
  /\ UNCHANGED outsideWorker

\* mutation of WaitQuiet: it returns while goroutines run
WaitQuietAtOnce ==
  /\ ~quiet /\ replay.pc # "new"
  /\ quiet' = TRUE
  /\ UNCHANGED <<task, tracker, stageLock, runningTasks, running, closing, delivered, replay>>
  /\ UNCHANGED outsideWorker

\* lines 808-811: l.running.Wait() returns, which it does when the counter
\* of the wait group is zero
WaitQuiet ==
  /\ ~quiet /\ replay.pc # "new"
  /\ running = 0
  /\ quiet' = TRUE
  /\ UNCHANGED <<task, tracker, stageLock, runningTasks, running, closing, delivered, replay>>
  /\ UNCHANGED outsideWorker

\* lines 802-806: Close closes l.closing
Close ==
  /\ ~closing /\ replay.pc # "new"
  /\ closing' = TRUE
  /\ UNCHANGED <<task, tracker, stageLock, runningTasks, running, quiet, delivered, replay>>
  /\ UNCHANGED outsideWorker

\* mutation of HasResourceForNewTask: a task type at its limit is accepted
HasResourceAtLimit(tasktype) ==
  IF tasktype \notin DOMAIN runningTasks
  THEN TRUE
  ELSE runningTasks[tasktype] <= ParallelCount(tasktype)

\* lines 703-718
HasResourceForNewTask(tasktype) ==
  IF tasktype \notin DOMAIN runningTasks
  THEN TRUE
  ELSE runningTasks[tasktype] < ParallelCount(tasktype)

NextWorker ==
  \/ \E list \in OldLists : newLocalWorker(list)
  \/ \E ok \in BOOLEAN : ReplayDeliver(ok)
  \/ ReplaySleep
  \/ ReplayReturned
  \/ Close
  \/ WaitQuiet
  \/ \E t \in Tasks :
       \/ CallerCancel(t)
       \/ \E k \in Kinds : asyncCall(t, k)
       \/ WorkFailEarly(t)
       \/ StageLock(t)
       \/ CounterUp(t)
       \/ StageExec(t)
       \/ CounterDown(t)
       \/ PlainExec(t)
       \/ AfterWork(t)
       \/ \E ok \in BOOLEAN : Deliver(t, ok)
       \/ RetrySleep(t)
       \/ RetryAbort(t)
       \/ OnReturned(t)

SpecWorker == Init /\ [][NextWorker]_workerVars

\* the steps of the goroutines of task t and of the replay goroutine that
\* depend on the worker alone
TaskStep(t) ==
  \/ StageLock(t) \/ CounterUp(t) \/ StageExec(t) \/ CounterDown(t) \/ PlainExec(t)
  \/ AfterWork(t) \/ RetrySleep(t) \/ OnReturned(t)

\* fair scheduling of the goroutines; every call of the proof library and of
\* the manager ends; the manager does not refuse a return for ever
SpecWorkerFair ==
  /\ SpecWorker
  /\ \A t \in Tasks : WF_workerVars(TaskStep(t))
  /\ WF_workerVars(ReplaySleep \/ ReplayReturned \/ \E ok \in BOOLEAN : ReplayDeliver(ok))
  /\ SF_workerVars(ReplayDeliver(TRUE))

\* ------------------------------------------------------------ properties
\* g is between the claim of the single-flight slot and the end of its
\* deferred release
Holding(g) ==
  pc[g] \in {"localAcquire", "allocate", "reserve", "loop", "find", "fetchWait",
             "fetchHttp", "declare", "delete", "release"}

\* g's AcquireSector call has returned after having claimed the slot
Released(g) ==
  /\ pc[g] = "done"
  /\ req[g].kind = "acquire"
  /\ ret[g].err \notin {"invalidAcquire", "ctx"}

\* C1: for every sector at most one AcquireSector call is between its slot
\* claim and its deferred release.
SingleFlight ==
  \A s \in Sectors : Cardinality({g \in Callers : Holding(g) /\ req[g].s = s}) <= 1

SingleFlightWitness ==
  \E g, h \in Callers :
    /\ Holding(g) /\ pc[g] = "fetchHttp"
    /\ pc[h] = "wait" /\ req[h].s = req[g].s /\ loc[h].c = fetching[req[g].s]

\* C2: a call that claimed the slot has, once returned, closed its waiter and
\* removed its map entry, whatever the exit path; an entry of the fetching map
\* belongs to a call in progress, so the map is empty when no call is.
WaiterCleanup ==
  /\ \A g \in Callers : Released(g) => g \in closed /\ fetching[req[g].s] # g
  /\ \A s \in Sectors : fetching[s] # 0 => Holding(fetching[s]) /\ req[fetching[s]].s = s
  /\ (\A g \in Callers : pc[g] \in {"idle", "done"}) => \A s \in Sectors : fetching[s] = 0

WaiterCleanupWitness ==
  \E g, h \in Callers :
    /\ Released(g) /\ ret[g].err = "" /\ hist[g].fetched # {}
    /\ Released(h) /\ ret[h].err \in {"localAcquire", "allocate", "reserve", "tried"}
    /\ \A s \in Sectors : fetching[s] = 0

\* C3 as stated: for each sector the local.AcquireSector + fetch path runs at
\* most once in total, whatever the number of callers.
RECURSIVE SumLocalAcq(_, _)
SumLocalAcq(G, s) ==
  IF G = {} THEN 0
  ELSE LET g == CHOOSE x \in G : TRUE
       IN (IF req[g].kind = "acquire" /\ req[g].s = s THEN hist[g].localAcq ELSE 0)
          + SumLocalAcq(G \ {g}, s)

LocalAcquireOnceInTotal ==
  \A s \in Sectors : SumLocalAcq(Callers, s) <= 1

\* C3 amended: the path runs once in every call that claims the slot (so up to
\* N times for N callers), never in two calls for the same sector at once.
LocalAcquireOncePerCall ==
  /\ \A g \in Callers :
       /\ hist[g].localAcq <= 1
       /\ Released(g) => hist[g].localAcq = 1
       /\ hist[g].fetched # {} => hist[g].localAcq = 1
  /\ \A g, h \in Callers :
       g # h /\ Holding(g) /\ Holding(h) => req[g].s # req[h].s

LocalAcquireOncePerCallWitness ==
  \E g, h \in Callers :
    /\ g # h /\ req[g].s = req[h].s
    /\ Released(g) /\ Released(h)
    /\ hist[g].localAcq = 1 /\ hist[h].localAcq = 1
    /\ hist[g].fetched # {} /\ hist[h].fetched = {} /\ ret[h].err = ""

RECURSIVE SumTokens(_)
SumTokens(G) ==
  IF G = {} THEN 0
  ELSE LET g == CHOOSE x \in G : TRUE IN hist[g].tokens + SumTokens(G \ {g})

FetchSemaphoreBound ==
  /\ limit <= FetchLimit
  /\ limit = SumTokens(Callers)
  /\ \A g \in Callers :
       hist[g].tokens = IF pc[g] \in {"fetchHttp", "readHttp"} THEN 1 ELSE 0

FetchSemaphoreBoundWitness ==
  \E g, h \in Callers :
    /\ pc[g] = "fetchHttp" /\ limit = FetchLimit
    /\ pc[h] = "readWait" /\ ctxDone[h] /\ hist[h].tokens = 0

\* C6: AcquireSector with existing and allocate sharing a file type returns
\* the error at once and changes nothing of the store.
InvalidAcquireNoEffect ==
  [][\A g \in Callers :
       (pc[g] = "idle" /\ pc'[g] # "idle" /\ req'[g].kind = "acquire"
          /\ req'[g].existing \cap req'[g].allocate # {})
       => /\ pc'[g] = "done"
          /\ ret'[g].err = "invalidAcquire"
          /\ UNCHANGED <<fetching, closed, limit, index, hist, loc>>]_vars

InvalidAcquireWitness ==
  \E g \in Callers :
    /\ pc[g] = "done" /\ ret[g].err = "invalidAcquire"
    /\ req[g].existing \cap req[g].allocate # {} /\ req[g].existing # req[g].allocate

\* C7: a reservation made by local.Reserve is released exactly once, and none
\* is held once the call has returned.
ReservationReleased ==
  \A g \in Callers :
    /\ hist[g].reserved <= 1
    /\ hist[g].released = IF loc[g].resv THEN 0 ELSE hist[g].reserved
    /\ pc[g] = "done" => ~loc[g].resv /\ hist[g].released = hist[g].reserved

ReservationReleasedWitness ==
  \E g, h \in Callers :
    /\ Released(g) /\ ret[g].err = "tried" /\ hist[g].reserved = 1 /\ hist[g].released = 1
    /\ Released(h) /\ ret[h].err = "" /\ hist[h].reserved = 1 /\ hist[h].released = 1

\* C8 as stated: under AcquireMove a DELETE is issued for every file type
\* that was fetched.
MoveDeletesEveryFetched ==
  \A g \in Callers :
    Released(g) /\ req[g].op = AcquireMove => hist[g].fetched \subseteq hist[g].deleted

\* C8 amended: under AcquireMove a DELETE is issued, to the URL the file came
\* from, for exactly the fetched file types whose declaration in the index
\* succeeded; under AcquireCopy none is issued; a failed DELETE is not an error
\* of the call.
MoveDeletesDeclared ==
  \A g \in Callers :
    Released(g) =>
      /\ hist[g].deleted = IF req[g].op = AcquireMove THEN hist[g].declared ELSE {}
      /\ hist[g].declared \subseteq hist[g].fetched
      /\ ~hist[g].misdirected
      /\ hist[g].delErr => ret[g].err \in {"", "index", "notFound", "fs", "move", "tried"}

MoveDeletesDeclaredWitness ==
  \E g \in Callers :
    /\ Released(g) /\ req[g].op = AcquireMove /\ ret[g].err = ""
    /\ hist[g].fetched = {FTSealed, FTCache}
    /\ hist[g].declared = {FTCache} /\ hist[g].deleted = {FTCache} /\ hist[g].delErr

\* C9 as stated: when every fetch from every URL failed, the error returned
\* is ErrSectorNotFound.
AllFetchesFailedIsNotFound ==
  \A g \in Callers :
    pc[g] \in {"release", "done"} /\ ret[g].merr > 0 => Unwrap(ret[g].err) = "ErrSectorNotFound"

\* C9 amended: when every fetch from every URL failed, the error returned
\* wraps the accumulated fetch errors, one for each URL of each store found,
\* and not ErrSectorNotFound, which is returned only when no store was found.
AllFetchesFailedIsMultierror ==
  \A g \in Callers :
    pc[g] \in {"release", "done"} =>
      /\ ret[g].merr > 0 => Unwrap(ret[g].err) = "multierror"
      /\ Unwrap(ret[g].err) = "multierror" => ret[g].merr = ret[g].tried /\ ret[g].merr > 0
      /\ Unwrap(ret[g].err) = "ErrSectorNotFound" => ret[g].merr = 0 /\ ret[g].tried = 0

AllFetchesFailedWitness ==
  \E g \in Callers :
    pc[g] = "done" /\ req[g].kind = "acquire" /\ ret[g].merr = 3 /\ ret[g].err = "tried"

\* C10 as stated: Remove of one file type never returns an error.
RemoveNeverFails ==
  \A g \in Callers :
    pc[g] = "done" /\ req[g].kind = "remove" /\ Cardinality(req[g].existing) = 1
      => ret[g].err = ""

\* C10 amended: Remove of one file type returns nil whatever the remote
\* DELETEs answer; it returns the error of the local removal or of the index
\* lookup, and then no DELETE has been issued.
RemoveFailsOnlyLocally ==
  \A g \in Callers :
    pc[g] = "done" /\ req[g].kind = "remove" /\ Cardinality(req[g].existing) = 1
      => /\ ret[g].err \in {"", "removeLocal", "index"}
         /\ ret[g].err # "" => hist[g].deleted = {}
         /\ hist[g].deleted # {} => ret[g].err = ""

RemoveFailsOnlyLocallyWitness ==
  \E g, h \in Callers :
    /\ pc[g] = "done" /\ req[g].kind = "remove" /\ hist[g].delErr /\ ret[g].err = ""
    /\ pc[h] = "done" /\ req[h].kind = "remove" /\ ret[h].err = "removeLocal"

\* ------------------------------------------------- properties: Consensus
\* the log entries replica p has applied
Prefix(p) == SubSeq(rlog, 1, applied[p])

\* the nonce of the last op for address a in the log lg (0: there is none)
RECURSIVE LastNonce(_, _)
LastNonce(lg, a) ==
  IF lg = <<>> THEN 0
  ELSE IF lg[Len(lg)].Addr = a THEN lg[Len(lg)].Nonce
  ELSE LastNonce(SubSeq(lg, 1, Len(lg) - 1), a)

\* C11: when a replica applies an op, NonceMap[op.Addr] becomes op.Nonce and
\* MsgUuids[op.Uuid] becomes op.SignedMsg, no other key of either map changes,
\* and Mpool.Add is called once, with op.SignedMsg; so on every replica
\* NonceMap[A] is the nonce of the last op for A that the replica applied.
ApplySetsBothMaps ==
  /\ [][\A p \in Peers :
         applied'[p] # applied[p] =>
           LET op == rlog'[applied'[p]]
               s == raftState[p]
               n == raftState'[p]
           IN /\ applied'[p] = applied[p] + 1
              /\ DOMAIN n.NonceMap = DOMAIN s.NonceMap \cup {op.Addr}
              /\ DOMAIN n.MsgUuids = DOMAIN s.MsgUuids \cup {op.Uuid}
              /\ n.NonceMap[op.Addr] = op.Nonce
              /\ n.MsgUuids[op.Uuid] = op.SignedMsg
              /\ \A a \in DOMAIN s.NonceMap \ {op.Addr} : n.NonceMap[a] = s.NonceMap[a]
              /\ \A u \in DOMAIN s.MsgUuids \ {op.Uuid} : n.MsgUuids[u] = s.MsgUuids[u]
              /\ \A m \in Msgs :
                   n.Mpool.added[m] = s.Mpool.added[m] + (IF m = op.SignedMsg THEN 1 ELSE 0)]_raftVars
  /\ [](\A p \in Peers :
         /\ \A a \in DOMAIN raftState[p].NonceMap :
              raftState[p].NonceMap[a] = LastNonce(Prefix(p), a)
         /\ \A k \in 1..applied[p] : rlog[k].Addr \in DOMAIN raftState[p].NonceMap)

ApplySetsBothMapsWitness ==
  \E p \in Peers :
    /\ applied[p] = 3
    /\ rlog[1].SignedMsg = "m1" /\ rlog[2].SignedMsg = "m3" /\ rlog[3].SignedMsg = "m1"
    /\ raftState[p].NonceMap["A"] = 1 /\ raftState[p].NonceMap["B"] = 1
    /\ raftState[p].MsgUuids["u1"] = "m1"
    /\ raftState[p].Mpool.added["m1"] = 2 /\ raftState[p].Mpool.added["m3"] = 1

\* C12 as stated: on every replica NonceMap[A] never decreases: it is at least
\* every nonce the replica has applied for A.
NonceNeverDecreases ==
  \A p \in Peers : \A k \in 1..applied[p] :
    raftState[p].NonceMap[rlog[k].Addr] >= rlog[k].Nonce

\* the RaftState that newRaftState becomes by applying the log lg in order
RECURSIVE Replay(_)
Replay(lg) ==
  IF lg = <<>> THEN newRaftState
  ELSE ApplyTo(lg[Len(lg)], Replay(SubSeq(lg, 1, Len(lg) - 1)))

\* C13: two replicas that have applied the same prefix of the log hold the
\* same NonceMap and the same MsgUuids, those of the prefix applied in order,
\* whatever their own message pools hold.
ReplicaAgreement ==
  /\ \A p, q \in Peers :
       applied[p] = applied[q] =>
         /\ raftState[p].NonceMap = raftState[q].NonceMap
         /\ raftState[p].MsgUuids = raftState[q].MsgUuids
  /\ \A p \in Peers :
       /\ raftState[p].NonceMap = Replay(Prefix(p)).NonceMap
       /\ raftState[p].MsgUuids = Replay(Prefix(p)).MsgUuids

ReplicaAgreementWitness ==
  \E p, q \in Peers :
    /\ applied[p] = 2 /\ applied[q] = 2
    /\ "m1" \in raftState[q].Mpool.held /\ "m1" \notin raftState[p].Mpool.held
    /\ raftState[q].Mpool.added["m1"] = 0
    /\ DOMAIN raftState[p].NonceMap = {"A", "B"}

\* caller c's call of kind k has returned
Returned(c, k) == call[c].kind = k /\ call[c].pc = "done"

\* C14 as stated: a Commit call that returns nil has appended its op to the
\* log once.
CommitAppendsOnce ==
  \A c \in Callers :
    Returned(c, "commit") /\ call[c].ret = "" => call[c].commitOk = 1

\* C15 as stated: Commit makes at most CommitRetries+1 attempts, makes none
\* after one that succeeded, returns nil when an attempt succeeded and an
\* error only when every attempt failed.
CommitStopsAtFirstSuccess ==
  \A c \in Callers :
    call[c].kind = "commit" =>
      /\ call[c].commitOps <= CommitRetries + 1
      /\ ~call[c].again
      /\ call[c].pc = "done" => (call[c].ret = "" <=> call[c].commitOk > 0)

\* replica p has applied op: its maps hold the op's nonce and message
Has(p, op) ==
  /\ op.Addr \in DOMAIN raftState[p].NonceMap
  /\ raftState[p].NonceMap[op.Addr] = op.Nonce

NoAttemptAfterCancel ==
  \A c \in Callers : ~call[c].late

\* caller c runs AddPeer or RmPeer and its last RedirectToLeader call has
\* returned (ok, err)
Redirected(c) ==
  /\ call[c].kind \in {"addPeer", "rmPeer"}
  /\ call[c].pc \in {"peerApply", "peerSleep", "done"}

\* C18: a RedirectToLeader call issues at most CommitRetries+1 RPCs and none
\* after one that succeeded; it returns (false, nil) when it finds this node
\* to be the leader, with no RPC at all when it finds so at once; it returns
\* (true, nil) after the RPC that succeeded, and (true, the RPC error) only
\* after CommitRetries+1 RPCs that all failed.
RedirectRetryEnvelope ==
  \A c \in Callers :
    call[c].kind \in {"addPeer", "rmPeer"} =>
      /\ call[c].rpcs <= CommitRetries + 1
      /\ call[c].rpcOk <= 1
      /\ call[c].rpcOk = 1 => Redirected(c) /\ call[c].ok /\ call[c].err = ""
      /\ Redirected(c) =>
           /\ (call[c].ok /\ call[c].err = "") => call[c].rpcOk = 1
           /\ (call[c].ok /\ call[c].err # "") =>
                call[c].err = "rpc" /\ call[c].rpcs = CommitRetries + 1 /\ call[c].rpcOk = 0
           /\ (~call[c].ok /\ call[c].err = "") =>
                /\ call[c].target = call[c].node
                /\ call[c].rpcOk = 0 /\ call[c].rpcs <= CommitRetries
                /\ call[c].lookups = 1 => call[c].rpcs = 0
           /\ (~call[c].ok /\ call[c].err # "") => call[c].err \in {"timeout", "decode"}

RedirectRetryEnvelopeWitness ==
  \E c, d \in Callers :
    /\ Returned(c, "addPeer") /\ call[c].ok /\ call[c].err = "rpc"
    /\ call[c].rpcs = CommitRetries + 1
    /\ Returned(d, "rmPeer") /\ call[d].ok /\ call[d].err = ""
    /\ call[d].rpcs = CommitRetries + 1 /\ call[d].rpcOk = 1

\* C19: a timeout of WaitForLeader ends RedirectToLeader with (false, error),
\* and with it the call: no RPC is counted as failed and retried, whatever
\* number of tries remained.
LeaderTimeoutIsTerminal ==
  \A c \in Callers :
    /\ call[c].rFinalErr # "timeout"
    /\ call[c].err = "timeout" =>
         /\ call[c].pc = "done" /\ call[c].ret = "timeout" /\ ~call[c].ok
         /\ call[c].rpcs <= CommitRetries /\ call[c].rpcOk = 0

LeaderTimeoutIsTerminalWitness ==
  \E c \in Callers :
    /\ call[c].pc = "done" /\ call[c].ret = "timeout"
    /\ call[c].lookups = 2 /\ call[c].rpcs = 0 /\ call[c].applies = 0

\* C20: AddPeer and RmPeer call the local raft engine only in an attempt in
\* which RedirectToLeader found this node to be the leader; a call whose
\* request was redirected, or whose redirect failed, returns that result
\* without a call of the local engine; the local engine is called at most
\* CommitRetries+1 times and not again after a success.
PeerForwardOrApply ==
  \A c \in Callers :
    call[c].kind \in {"addPeer", "rmPeer"} =>
      /\ ~call[c].blind
      /\ call[c].pc = "peerApply" =>
           ~call[c].ok /\ call[c].err = "" /\ call[c].target = call[c].node
      /\ call[c].applies <= CommitRetries + 1
      /\ call[c].applyOk <= 1
      /\ call[c].applyOk = 1 => call[c].pc = "done" /\ call[c].ret = "" /\ call[c].rpcOk = 0
      /\ (Redirected(c) /\ (call[c].ok \/ call[c].err # "")) =>
           call[c].pc = "done" /\ call[c].ret = call[c].err /\ call[c].applyOk = 0
      /\ (call[c].pc = "done" /\ call[c].ret = "raft") =>
           call[c].applies = CommitRetries + 1 /\ call[c].applyOk = 0

PeerForwardOrApplyWitness ==
  \E c, d \in Callers :
    /\ Returned(c, "addPeer") /\ call[c].ret = "raft" /\ call[c].applies = CommitRetries + 1
    /\ Returned(d, "rmPeer") /\ call[d].ok /\ call[d].ret = ""
    /\ call[d].applies = 1 /\ call[d].rpcOk = 1

\* --------------------------------------- properties: Consensus life cycle
\* C21: the ready channel is signalled at most once, and only after the RPC
\* client became ready, Bootstrap succeeded and the three waits of
\* WaitForSync succeeded, in that order; when a step failed, or the internal
\* context was cancelled before WaitForSync had returned, it is never
\* signalled.
ReadyOnlyAfterSync ==
  /\ readyCh <= 1
  /\ readyCh = 1 =>
       /\ bootLog = <<"rpc", "bootstrap", "leader", "voter", "updates", "ready">>
       /\ ctxCancelled => cancelAt >= 5
  /\ (bootPc = "end" /\ (bootLog = <<>> \/ bootLog[Len(bootLog)] # "ready")) => readyCh = 0

ReadyOnlyAfterSyncWitness ==
  /\ readyCh = 1 /\ bootPc = "end" /\ ctxCancelled /\ rpcReady.closed

\* the internal context was cancelled before the RPC client was ready, the
\* select took the branch of cc.rpcReady, and the ready channel stays empty
ReadyNeverAfterCancelWitness ==
  /\ bootPc = "end" /\ readyCh = 0 /\ cancelAt = 0 /\ ctxCancelled
  /\ bootLog = <<"closed", "bootstrap">>

\* C22 as stated: every Shutdown call, the second one included, completes
\* normally and returns nil.
ShutdownIdempotent ==
  \A c \in Callers : shut[c] # "panic"

\* ------------------------------------------------ properties: LocalWorker
\* the tasks of type tt whose work function is running
Working(tt) == {t \in Tasks : task[t].kind = tt /\ task[t].pc \in {"work", "locked", "exec", "unlocked"}}

\* the tasks of stage tt that are inside the call of the proof library
InStage(tt) == {t \in Tasks : task[t].kind = tt /\ task[t].pc \in {"locked", "exec"}}

\* C23 as stated: runningTasks[tt] never exceeds parallelConfig[tt] for the
\* stages P1, P2 and C2.
StageCapInvariant ==
  \A tt \in Stages : Running(tt) <= parallelConfig[tt]

\* C24: for each of P1, P2 and C2 at most one task is between the Lock and
\* the Unlock of the stage mutex, where the proof library is called, and it
\* is the holder of the mutex; every other accepted task of the stage waits.
StagesSerialized ==
  \A tt \in Stages :
    /\ Cardinality(InStage(tt)) <= 1
    /\ \A t \in InStage(tt) : stageLock[tt] = t
    /\ InStage(tt) = {} => stageLock[tt] = 0

StagesSerializedWitness ==
  \E t, u \in Tasks :
    /\ task[t].kind = TTPreCommit1 /\ task[t].pc = "exec"
    /\ task[u].kind = TTPreCommit1 /\ task[u].pc = "work"

\* tasks of two different stages are inside the proof library together
StagesOverlapWitness ==
  \E t, u \in Tasks :
    /\ task[t].kind = TTPreCommit1 /\ task[t].pc = "exec"
    /\ task[u].kind = TTCommit2 /\ task[u].pc = "exec"

\* C25 as stated: at most parallelConfig[tt] work functions of AddPiece,
\* SealCommit1 and FinalizeSector run at one time.
PlainStagesBounded ==
  \A tt \in {TTAddPiece, TTCommit1, TTFinalize} :
    Cardinality(Working(tt)) <= parallelConfig[tt]

\* C26 as stated: HasResourceForNewTask(tt) is true exactly when
\* runningTasks[tt] < parallelConfig[tt], for every task type.
HasResourceIffBelowLimit ==
  \A tt \in TaskTypes :
    HasResourceForNewTask(tt) <=> (Running(tt) < ParallelCount(tt))

\* C26 amended: for a task type of parallelConfig, counted or not,
\* HasResourceForNewTask(tt) is true exactly when runningTasks[tt] <
\* parallelConfig[tt]; a task type absent from parallelConfig is never
\* counted in runningTasks and HasResourceForNewTask is true for it.
HasResourceIffConfiguredBelowLimit ==
  \A tt \in TaskTypes :
    IF tt \in DOMAIN parallelConfig
    THEN HasResourceForNewTask(tt) <=> (Running(tt) < parallelConfig[tt])
    ELSE tt \notin DOMAIN runningTasks /\ HasResourceForNewTask(tt)

HasResourceIffConfiguredBelowLimitWitness ==
  /\ Running(TTPreCommit1) = 1 /\ ~HasResourceForNewTask(TTPreCommit1)
  /\ Running(TTCommit2) = 0 /\ TTCommit2 \in DOMAIN runningTasks
  /\ HasResourceForNewTask(TTCommit2)
  /\ TTPreCommit2 \notin DOMAIN runningTasks /\ HasResourceForNewTask(TTPreCommit2)
  /\ HasResourceForNewTask(TTFetch)

\* C27: once the goroutine of a call whose doReturn returned true has
\* ended, the tracker holds no record for its CallID.
NoRecordAfterReturn ==
  \A t \in Tasks :
    (task[t].pc = "ended" /\ task[t].ret = "true") => tracker[t] = "absent"

NoRecordAfterReturnWitness ==
  \E t, u \in Tasks :
    /\ task[t].pc = "ended" /\ task[t].ret = "true"
    /\ task[t].ev = <<"onStart", "onDone", "deliver", "onReturned">>
    /\ task[u].pc = "returned" /\ tracker[u] = "started"

\* C28 as stated: the tracker is called in the order onStart, onDone,
\* onReturned: every call whose work function has finished is recorded as
\* done before its result is delivered, and a call whose delivery was given
\* up leaves a done record.
DoneBeforeDelivery ==
  \A t \in Tasks :
    /\ (task[t].pc \in {"return", "sleep", "returned", "ended"} /\ task[t].ev[1] = "onStart") =>
         Len(task[t].ev) >= 2 /\ task[t].ev[2] = "onDone"
    /\ (task[t].ret = "false" /\ task[t].ev[1] = "onStart") => tracker[t] = "done"

\* C29: doReturn returns true only after one call of the return function
\* succeeded and makes no call after it; it returns false only when the
\* worker is closing, without onReturned, so that the record stays; a call
\* that failed is followed by the sleep and the next call.
DoReturnUntilDelivered ==
  /\ [](\A t \in Tasks :
          /\ Len(delivered[t]) <= 1
          /\ delivered[t] # <<>> => task[t].pc \in {"returned", "ended"} /\ task[t].ret # "false"
          /\ task[t].ret = "true" => Len(delivered[t]) = 1
          /\ task[t].ret = "false" =>
               /\ closing /\ delivered[t] = <<>>
               /\ \A i \in 1..Len(task[t].ev) : task[t].ev[i] # "onReturned"
               /\ task[t].ev[1] = "onStart" => tracker[t] # "absent")
  /\ [][\A t \in Tasks :
          /\ (task[t].pc = "return" /\ task'[t].pc # "return") =>
               \/ task'[t].pc = "sleep" /\ delivered'[t] = delivered[t]
               \/ task'[t].pc = "returned" /\ Len(delivered'[t]) = Len(delivered[t]) + 1
          /\ (task[t].pc = "sleep" /\ task'[t].pc # "sleep") =>
               \/ task'[t].pc = "return"
               \/ closing /\ task'[t].pc = "ended" /\ task'[t].ret = "false"]_workerVars

DoReturnUntilDeliveredWitness ==
  \E t, u \in Tasks :
    /\ task[t].pc = "ended" /\ task[t].ret = "false" /\ tracker[t] = "started"
    /\ task[u].pc = "ended" /\ task[u].ret = "true" /\ delivered[u] = <<"res">>

\* the records unfinished() returned at construction
Unfinished == {replay.list[i] : i \in 1..Len(replay.list)}

\* C30: every record unfinished() returned is delivered to the manager once,
\* as a restart error; onReturned deletes it only after that delivery; and
\* when the manager does not refuse for ever, the replay ends with every
\* such record delivered and deleted.
ReplayDeliversUnfinished ==
  /\ [](\A o \in OldCalls :
          /\ delivered[o] \in {<<>>, <<"restart">>}
          /\ delivered[o] # <<>> => o \in Unfinished
          /\ (o \in Unfinished /\ tracker[o] = "absent") => delivered[o] = <<"restart">>
          /\ (o \in Unfinished /\ replay.pc = "end") =>
               delivered[o] = <<"restart">> /\ tracker[o] = "absent")
  /\ (replay.pc # "new") ~> (replay.pc = "end" /\ \A o \in Unfinished : tracker[o] = "absent")

ReplayDeliversUnfinishedWitness ==
  /\ replay.pc = "end" /\ replay.list = <<OldStarted, OldDone>>
  /\ \A o \in OldCalls : delivered[o] = <<"restart">> /\ tracker[o] = "absent"
  /\ \E t \in Tasks : tracker[t] = "started"

\* the goroutine of task t runs: its work function or its return delivery
\* has not ended
Live(t) == task[t].pc \notin {"idle", "ended"}

\* C31: the context of a task's work function and of its return delivery is
\* cancelled exactly when Close has closed l.closing: a cancelled context of
\* the caller cancels no running task, Close cancels every running task,
\* and a delivery is given up only after Close.
TaskCtxIsClosing ==
  /\ [](\A t \in Tasks :
          /\ Live(t) => (wctxDone(t) <=> closing)
          /\ task[t].ret = "false" => closing)
  /\ [][\A t \in Tasks :
          (Live(t) /\ task'[t].pc = "ended" /\ task'[t].ret = "false") => wctxDone(t) /\ closing]_workerVars

TaskCtxIsClosingWitness ==
  \E t, u \in Tasks :
    /\ task[t].ctxDone /\ task[t].pc = "sleep" /\ ~closing
    /\ task[u].pc = "ended" /\ task[u].ret = "true"

\* C32: asyncCall returns with the goroutine of the call at the start of its
\* work function, and WaitQuiet returns only when every goroutine started
\* before has ended, its result delivered or its delivery given up at
\* shutdown.
WaitQuietAfterGoroutines ==
  /\ [](quiet => \A t \in Tasks :
          /\ ~Live(t)
          /\ task[t].pc = "ended" =>
               \/ task[t].ret = "true" /\ Len(delivered[t]) = 1
               \/ task[t].ret = "false" /\ closing)
  /\ [][\A t \in Tasks :
          (task[t].pc = "idle" /\ task'[t].pc # "idle") =>
             task'[t].pc = "work" /\ delivered'[t] = <<>> /\ running' = running + 1]_workerVars

WaitQuietAfterGoroutinesWitness ==
  /\ quiet
  /\ \E t, u \in Tasks : task[t].ret = "true" /\ task[u].ret = "false"

\* C33: the counter of a stage is the number of its tasks between the
\* increment after Lock and the decrement of the deferred function, so it is
\* never negative and is zero when no task runs; a step changes it by one
\* increment on entry or one decrement on exit; the mutex of a stage is held
\* exactly by a task between Lock and Unlock, so it is free after every
\* exit, failed or not.
StageCountersBalanced ==
  /\ [](\A tt \in Stages :
          /\ Running(tt) = Cardinality({t \in Tasks : task[t].kind = tt /\ task[t].pc \in {"exec", "unlocked"}})
          /\ Running(tt) >= 0
          /\ Working(tt) = {} => Running(tt) = 0 /\ stageLock[tt] = 0
          /\ \A t \in Tasks : stageLock[tt] = t <=> t \in InStage(tt))
  /\ [][\A tt \in Stages :
          \/ Running(tt)' = Running(tt)
          \/ \E t \in Tasks : /\ task[t].kind = tt /\ task[t].pc = "locked" /\ task'[t].pc = "exec"
                               /\ Running(tt)' = Running(tt) + 1
          \/ \E t \in Tasks : /\ task[t].kind = tt /\ task[t].pc = "unlocked" /\ task'[t].pc = "finish"
                               /\ Running(tt)' = Running(tt) - 1]_workerVars

StageCountersBalancedWitness ==
  /\ \A t \in Tasks : task[t].pc = "ended"
  /\ DOMAIN runningTasks = {TTPreCommit2, TTCommit2}
  /\ \A tt \in Stages : Running(tt) = 0 /\ stageLock[tt] = 0
  /\ \E t, u \in Tasks : delivered[t] = <<"err">> /\ delivered[u] = <<"res">>

\* C40 as stated: every call whose goroutine runs has a record in the call
\* tracker; a call whose onStart failed has no goroutine.
StartedTaskIsTracked ==
  \A t \in Tasks : Live(t) => tracker[t] # "absent" /\ task[t].ev[1] = "onStart"

\* C39 as stated, its first half: the restart replay stops when the worker
\* is closed: once l.closing is closed, the replay does not leave the wait
\* after a failed delivery for another call of the return function.
ReplayStopsAtClose ==
  [][(closing /\ replay.pc = "sleep") => replay'.pc # "deliver"]_workerVars

\* C38 as stated: once Shutdown has been called on a component built
\* without an RPC client, finishBootstrap takes no step that calls
\* cc.raft.Bootstrap or a wait of WaitForSync, and sends nothing on the
\* ready channel, whichever branch its select took.
ShutdownStopsBootstrap ==
  [][(ctor = "plain" /\ \E c \in Callers : shut[c] # "idle") =>
       /\ bootPc \in {"bootstrap", "waitLeader", "waitVoter", "waitUpdates"} => bootPc' = bootPc
       /\ readyCh' = readyCh]_bootVars

\* the number of URLs the loops of acquireFromRemote have reached when they
\* are at the position of l: those of the stores before l.li and the first
\* l.ui of store l.li
Rank(l) == NumURLs(SubSeq(l.si, 1, l.li - 1)) + l.ui

\* C34: while acquireFromRemote fetches, its stores are in ascending Weight
\* and every URL before the current one, in the order of the stores and of
\* each store's list, was tried and failed with a fetch error; a fetch error
\* moves to the next URL in that order and, past the last one, returns the
\* accumulated errors; a fetch and move that succeed end the search with
\* the URL just fetched.
FetchOrderByWeight ==
  /\ [](\A g \in Callers : pc[g] \in {"fetchWait", "fetchHttp"} =>
          /\ \A i, j \in 1..Len(loc[g].si) : i < j => Weight[loc[g].si[i]] <= Weight[loc[g].si[j]]
          /\ loc[g].li \in 1..Len(loc[g].si) /\ loc[g].ui \in 1..Len(URLs[loc[g].si[loc[g].li]])
          /\ loc[g].merr = Rank(loc[g]) - 1)
  /\ [][\A g \in Callers : pc[g] \in {"fetchWait", "fetchHttp"} =>
          /\ pc'[g] = "declare" => loc'[g].url = CurURL(loc[g]) /\ pc[g] = "fetchHttp"
          /\ (pc'[g] \in {"fetchWait", "fetchHttp"} /\ loc'[g] # loc[g]) =>
               /\ pc'[g] = "fetchWait" /\ loc'[g].si = loc[g].si
               /\ Rank(loc'[g]) = Rank(loc[g]) + 1
          /\ (pc'[g] = "release" /\ ret'[g].err = "tried") =>
               Rank(loc[g]) = NumURLs(loc[g].si) /\ ret'[g].merr = NumURLs(loc[g].si)]_vars

FetchOrderByWeightWitness ==
  \E g \in Callers :
    /\ pc[g] = "declare" /\ loc[g].url = "a1"
    /\ req[g].s = "s1" /\ PathTypes[loc[g].ft] = FTSealed

\* C35: a contender leaves its wait for another call's waiter either woken,
\* for another pass of the claim loop, or with the error of its context, and
\* then the fetching map and the closed waiters are as they were; a waiter
\* leaves the map only by the release of the call that installed it.
ContenderCancelLeavesMap ==
  /\ [](\A g \in Callers : (pc[g] = "done" /\ ret[g].err = "ctx") =>
          hist[g].localAcq = 0 /\ \A s \in Sectors : fetching[s] # g)
  /\ [][/\ \A g \in Callers : (pc[g] = "wait" /\ pc'[g] = "done") =>
             /\ ctxDone[g] /\ ret'[g].err = "ctx"
             /\ fetching' = fetching /\ closed' = closed
        /\ \A s \in Sectors : (fetching[s] # 0 /\ fetching'[s] # fetching[s]) =>
             /\ pc[fetching[s]] = "release" /\ pc'[fetching[s]] = "done"
             /\ fetching'[s] = 0 /\ closed' = closed \cup {fetching[s]}]_vars

ContenderCancelLeavesMapWitness ==
  \E g, h \in Callers :
    /\ pc[g] = "done" /\ ret[g].err = "ctx"
    /\ fetching[req[g].s] = h /\ Holding(h) /\ h \notin closed

\* C37 as stated: when AcquireSector returns the error of a file type whose
\* fetch failed at every URL, no file type it fetched before has been
\* declared in the index or deleted at its source.
AcquireFailureIsAtomic ==
  \A g \in Callers :
    (pc[g] \in {"release", "done"} /\ req[g].kind = "acquire"
       /\ ret[g].err = "tried") =>
      hist[g].declared = {} /\ hist[g].deleted = {}

\* C36: the remote store has no deadlock: a token of the fetch semaphore is
\* held only during an HTTP request, never by a call that waits for a slot
\* or a token; whenever a call is in progress some call can take a step;
\* and a call that waits for a token with the slot of its sector gets one,
\* unless its context is done.
RemoteDeadlockFree ==
  /\ [](\A g \in Callers : hist[g].tokens > 0 => pc[g] \in {"fetchHttp", "readHttp"})
  /\ []((\E g \in Callers : pc[g] \notin {"idle", "done"}) => ENABLED (\E g \in Callers : Step(g)))
  /\ \A g \in Callers : (pc[g] = "fetchWait") ~> (pc[g] = "fetchHttp" \/ ctxDone[g])

RemoteDeadlockFreeWitness ==
  \E g, h \in Callers :
    /\ pc[g] = "fetchWait" /\ fetching[req[g].s] = g /\ ~ctxDone[g]
    /\ limit = FetchLimit /\ pc[h] \in {"fetchHttp", "readHttp"}
====
